---------------------------- MODULE Spec2Model ----------------------------
(***************************************************************************)
(* SyncLite: a star-topology directory synchroniser.  One leader accepts   *)
(* TCP connections, followers dial it.  The model covers the reconciler    *)
(* (sync/merge_states.rs), the sync-state store (models/sync_config.rs),   *)
(* the connection manager (network/connection_manager.rs), the peers       *)
(* registry (models/peers_config.rs) and the leader / follower tasks of    *)
(* main.rs: watcher, connection handler, follower select loop.             *)
(*                                                                         *)
(* Thirteen specifications share the definitions:                          *)
(*   SpecReconcile  determine_winning_files applied to every pair of       *)
(*                  bounded sync states;                                   *)
(*   SpecHandshake  a leader and one follower that boot with every pair of *)
(*                  bounded workspaces and run the initial-sync handshake; *)
(*   SpecJoin       a leader and two followers that boot with conflicting  *)
(*                  versions of one file: handshakes, relays, disconnects; *)
(*   Spec           a leader and one follower with empty workspaces, user  *)
(*                  edits, watchers, relays and a disconnect;              *)
(*   SpecStore      two tasks calling the sync-state store concurrently,   *)
(*                  one lock acquisition per step;                         *)
(*   SpecWire       two leader tasks calling the connection manager        *)
(*                  concurrently, one write per step;                      *)
(*   SpecPeers      add_peer, remove_peer and set_leader on the registry;  *)
(*   SpecBatch      one batch write or batch delete on every bounded       *)
(*                  workspace, with files the sandbox or the disk refuses; *)
(*   SpecBoot       initialise_state on every bounded state.json and       *)
(*                  workspace;                                             *)
(*   SpecSandbox    calls of the sandboxed FileSystem on paths inside and  *)
(*                  outside the workspace root;                            *)
(*   SpecStorage    create_storage_files on every bounded .synclite;       *)
(*   SpecSelect     a connected follower in its select loop, reading the   *)
(*                  leader's stream byte by byte;                          *)
(*   SpecEdits      a leader and two followers with empty workspaces whose *)
(*                  users create files once every handshake is over.       *)
(*                                                                         *)
(* Left out: the events the watcher receives for the files under           *)
(* .synclite (it skips their paths), I/O errors of the local disk outside  *)
(* SpecBatch and SpecStorage, and the content of the log.  A file's        *)
(* content is a small integer and its SHA-256 an injective function of it. *)
(***************************************************************************)
EXTENDS Integers, Sequences, FiniteSets, TLC

\* ------------------------------------------------------------------ bounds
\* Timestamps of the entries a node boots with are drawn from 1..MaxInitTs.
MaxInitTs == 2
\* Number of user edits (create / modify / delete) made in a behaviour of Spec
\* or SpecEdits.
MaxEdits == 2
\* Number of followers that disconnect abruptly, or whose first read fails,
\* in a behaviour of Spec or SpecJoin.
MaxCrashes == 1
\* Number of store operations called in a behaviour of SpecStore.
MaxCalls == 3
\* Number of connection-manager calls made in a behaviour of SpecWire.
MaxSends == 2
\* Length in bytes of the longest serialized message in SpecWire.
MaxBody == 2
\* Longest peer list a behaviour of SpecPeers builds.
MaxPeers == 4
\* Number of FileSystem calls in a behaviour of SpecSandbox.
MaxFsCalls == 3
\* Frames the leader sends in a behaviour of SpecSelect.
MaxFrames == 2
\* Messages the follower's watcher sends in a behaviour of SpecSelect.
MaxChanges == 1

\* ------------------------------------------------------------- the universe
Leader == "L"
Followers == {"F1", "F2"}
Nodes == {Leader} \cup Followers
Paths == {"a", "b"}
Contents == {1, 2}

\* Option<String>::None of FileEntry.hash
NoHash == 0

\* calculate_file_hash: SHA-256 of the content, abstracted to an injective map
\* whose values are neither contents nor NoHash.
calculate_file_hash(content) == content + 10

Hashes == {calculate_file_hash(c) : c \in Contents}

\* HashMap::insert on a map represented as a function with a finite domain.
Put(map, key, value) ==
  [k \in (DOMAIN map) \cup {key} |-> IF k = key THEN value ELSE map[k]]

\* HashMap::new()
EmptyMap == [k \in {} |-> 0]

\* FileEntry { hash, is_deleted, last_modified }
FileEntry(hash, is_deleted, last_modified) ==
  [hash |-> hash, is_deleted |-> is_deleted, last_modified |-> last_modified]

LiveEntry(content, ts) == FileEntry(calculate_file_hash(content), FALSE, ts)
Tombstone(ts) == FileEntry(NoHash, TRUE, ts)

\* ------------------------------------------------------------- reconciler
\* Classify that lets the peer win a tie (>= where the code has >).
ClassifyTieToPeer(server_sync_state, peer_sync_state, path) ==
  IF path \in DOMAIN server_sync_state /\ path \in DOMAIN peer_sync_state
  THEN LET server_file == server_sync_state[path]
           peer_file == peer_sync_state[path]
       IN IF server_file.hash # peer_file.hash
          THEN IF peer_file.last_modified >= server_file.last_modified
               THEN IF peer_file.is_deleted
                    THEN "files_to_delete_from_server"
                    ELSE "peer_winning_files"
               ELSE IF server_file.is_deleted
                    THEN "files_to_delete_from_server"
                    ELSE "server_winning_files"
          ELSE "none"
  ELSE IF path \in DOMAIN server_sync_state
  THEN IF server_sync_state[path].is_deleted
       THEN "files_to_delete_from_peer"
       ELSE "none"
  ELSE IF path \in DOMAIN peer_sync_state
  THEN IF peer_sync_state[path].is_deleted
       THEN "files_to_delete_from_server"
       ELSE "none"
  ELSE "none"

\* Classify that compares the timestamps without comparing the hashes first.
ClassifyWithoutHashes(server_sync_state, peer_sync_state, path) ==
  IF path \in DOMAIN server_sync_state /\ path \in DOMAIN peer_sync_state
  THEN LET server_file == server_sync_state[path]
           peer_file == peer_sync_state[path]
       IN IF peer_file.last_modified > server_file.last_modified
          THEN IF peer_file.is_deleted
               THEN "files_to_delete_from_server"
               ELSE "peer_winning_files"
          ELSE IF server_file.last_modified > peer_file.last_modified
               THEN IF server_file.is_deleted
                    THEN "files_to_delete_from_server"
                    ELSE "server_winning_files"
               ELSE "none"
  ELSE IF path \in DOMAIN server_sync_state
  THEN IF server_sync_state[path].is_deleted
       THEN "files_to_delete_from_peer"
       ELSE "none"
  ELSE IF path \in DOMAIN peer_sync_state
  THEN IF peer_sync_state[path].is_deleted
       THEN "files_to_delete_from_server"
       ELSE "none"
  ELSE "none"

\* Classify with the two live-winner arms of the conflict case exchanged.
ClassifyWinnersExchanged(server_sync_state, peer_sync_state, path) ==
  IF path \in DOMAIN server_sync_state /\ path \in DOMAIN peer_sync_state
  THEN LET server_file == server_sync_state[path]
           peer_file == peer_sync_state[path]
       IN IF server_file.hash # peer_file.hash
          THEN IF peer_file.last_modified > server_file.last_modified
               THEN IF peer_file.is_deleted
                    THEN "files_to_delete_from_server"
                    ELSE "server_winning_files"
               ELSE IF server_file.last_modified > peer_file.last_modified
                    THEN IF server_file.is_deleted
                         THEN "files_to_delete_from_server"
                         ELSE "peer_winning_files"
                    ELSE "none"
          ELSE "none"
  ELSE IF path \in DOMAIN server_sync_state
  THEN IF server_sync_state[path].is_deleted
       THEN "files_to_delete_from_peer"
       ELSE "none"
  ELSE IF path \in DOMAIN peer_sync_state
  THEN IF peer_sync_state[path].is_deleted
       THEN "files_to_delete_from_server"
       ELSE "none"
  ELSE "none"

\* The arm of determine_winning_files' match that one path takes, named by the
\* output vector the path is pushed to ("none" when it is pushed to no vector).
Classify(server_sync_state, peer_sync_state, path) ==
  IF path \in DOMAIN server_sync_state /\ path \in DOMAIN peer_sync_state
  THEN LET server_file == server_sync_state[path]
           peer_file == peer_sync_state[path]
       IN IF server_file.hash # peer_file.hash
          THEN IF peer_file.last_modified > server_file.last_modified
               THEN IF peer_file.is_deleted
                    THEN "files_to_delete_from_server"
                    ELSE "peer_winning_files"
               ELSE IF server_file.last_modified > peer_file.last_modified
                    THEN IF server_file.is_deleted
                         THEN "files_to_delete_from_server"
                         ELSE "server_winning_files"
                    ELSE "none"
          ELSE "none"
  ELSE IF path \in DOMAIN server_sync_state
  THEN IF server_sync_state[path].is_deleted
       THEN "files_to_delete_from_peer"
       ELSE "none"
  ELSE IF path \in DOMAIN peer_sync_state
  THEN IF peer_sync_state[path].is_deleted
       THEN "files_to_delete_from_server"
       ELSE "none"
  ELSE "none"

\* The four vectors of determine_winning_files.  all_files is a HashSet, so a
\* path is pushed at most once and the order inside a vector is arbitrary: the
\* vectors are modelled as sets of paths.
determine_winning_files(server_sync_state, peer_sync_state) ==
  LET all_files == (DOMAIN server_sync_state) \cup (DOMAIN peer_sync_state)
      pushed(vector) ==
        {path \in all_files :
           Classify(server_sync_state, peer_sync_state, path) = vector}
  IN [server_winning_files |-> pushed("server_winning_files"),
      peer_winning_files |-> pushed("peer_winning_files"),
      files_to_delete_from_server |-> pushed("files_to_delete_from_server"),
      files_to_delete_from_peer |-> pushed("files_to_delete_from_peer")]

NoWinners ==
  [server_winning_files |-> {}, peer_winning_files |-> {},
   files_to_delete_from_server |-> {}, files_to_delete_from_peer |-> {}]

\* Well-formed entries and the sync states built from them.
InitEntries ==
  {LiveEntry(c, t) : c \in Contents, t \in 1..MaxInitTs}
    \cup {Tombstone(t) : t \in 1..MaxInitTs}

SyncStates == UNION {[keys -> InitEntries] : keys \in SUBSET Paths}

\* ------------------------------------------------- workspace and messages
\* A notify::Event reduced to the path it names and its EventKind.  The field
\* programmatic is history: it records whether the node's own handler caused the
\* event; no action reads it.
Event(path, kind, programmatic) ==
  [path |-> path, kind |-> kind, programmatic |-> programmatic]

\* Elements of a finite set in a fixed order (the iteration order of a HashMap
\* or a Vec built from one is arbitrary but fixed for a given run).
RECURSIVE SeqOf(_)
SeqOf(set) ==
  IF set = {} THEN <<>>
  ELSE LET x == CHOOSE y \in set : TRUE IN <<x>> \o SeqOf(set \ {x})

\* tokio::fs::write through FileSystem::write_file, for every file of a batch.
BatchWriteDisk(d, files) ==
  [path \in (DOMAIN d) \cup (DOMAIN files) |->
     IF path \in DOMAIN files THEN files[path] ELSE d[path]]

\* The events the OS reports for those writes: Create for a new file, Modify
\* for an existing one.
RECURSIVE WriteEvents(_, _)
WriteEvents(d, pathSeq) ==
  IF pathSeq = <<>> THEN <<>>
  ELSE <<Event(Head(pathSeq),
               IF Head(pathSeq) \in DOMAIN d THEN "Modify" ELSE "Create",
               TRUE)>>
         \o WriteEvents(d, Tail(pathSeq))

\* tokio::fs::remove_file through FileSystem::delete_file; the error for a
\* file that does not exist is ignored by sync_batch_delete_files.
BatchDeleteDisk(d, paths) == [path \in (DOMAIN d) \ paths |-> d[path]]

RECURSIVE RemoveEvents(_, _)
RemoveEvents(d, pathSeq) ==
  IF pathSeq = <<>> THEN <<>>
  ELSE (IF Head(pathSeq) \in DOMAIN d
        THEN <<Event(Head(pathSeq), "Remove", TRUE)>> ELSE <<>>)
         \o RemoveEvents(d, Tail(pathSeq))

\* BatchWriteState that skips the state update after the files are written.
BatchWriteStateSkipped(state, files, d, ts) == state

\* The closure sync_batch_write_files hands to batch_operations: a live entry
\* stamped Utc::now() for every file whose hash can be computed.
BatchWriteState(state, files, d, ts) ==
  [path \in (DOMAIN state) \cup ((DOMAIN files) \cap (DOMAIN d)) |->
     IF path \in (DOMAIN files) \cap (DOMAIN d)
     THEN FileEntry(calculate_file_hash(d[path]), FALSE, ts)
     ELSE state[path]]

\* BatchDeleteState that stamps every tombstone with the local clock.
BatchDeleteStateLocalClock(state, paths, peer_sync_state, ts) ==
  [path \in (DOMAIN state) \cup paths |->
     IF path \in paths THEN FileEntry(NoHash, TRUE, ts) ELSE state[path]]

\* The closure sync_batch_delete_files hands to batch_operations.
\* peer_sync_state is an Option: <<>> for None, <<s>> for Some(s).
BatchDeleteState(state, paths, peer_sync_state, ts) ==
  [path \in (DOMAIN state) \cup paths |->
     IF path \in paths
     THEN LET last_modified ==
                IF peer_sync_state # <<>>
                THEN IF path \in DOMAIN peer_sync_state[1]
                     THEN peer_sync_state[1][path].last_modified
                     ELSE ts
                ELSE ts
          IN FileEntry(NoHash, TRUE, last_modified)
     ELSE state[path]]

\* ServerMessage
ConnectionAck(peer_id) ==
  [type |-> "ConnectionAck", peer_id |-> peer_id, leader_id |-> Leader]
PeerListUpdate(list) == [type |-> "PeerListUpdate", peers |-> list]
InitialSyncPushResponse(files_to_update, files_to_delete, files_to_send_back) ==
  [type |-> "InitialSyncPushResponse", files_to_update |-> files_to_update,
   files_to_delete |-> files_to_delete,
   files_to_send_back |-> files_to_send_back]
\* ServerMessage::FileUpdatePush and PeerMessage::FileUpdatePush
FileUpdatePush(files_to_write, files_to_delete) ==
  [type |-> "FileUpdatePush", files_to_write |-> files_to_write,
   files_to_delete |-> files_to_delete]
\* PeerMessage
InitialSyncPush(sync_state) ==
  [type |-> "InitialSyncPush", sync_state |-> sync_state]

NoUpdate == FileUpdatePush(EmptyMap, {})

\* ---------------------------------------------------- watcher decision table
\* Variant of Decide that takes a file created and removed within one burst
\* for a temporary file and ignores it.
DecideSkipsShortLived(file_exists, has_create, has_remove, has_modify) ==
  IF file_exists /\ has_create /\ has_remove THEN "update"
  ELSE IF file_exists /\ has_create /\ ~has_remove THEN "add"
  ELSE IF file_exists /\ ~has_create /\ has_modify THEN "update"
  ELSE IF ~file_exists /\ has_remove /\ ~has_create THEN "delete"
  ELSE "ignore"

\* Variant of Decide in which a Remove event always decides a deletion.
DecideRemoveFirst(file_exists, has_create, has_remove, has_modify) ==
  IF has_remove THEN "delete"
  ELSE IF file_exists /\ has_create THEN "add"
  ELSE IF file_exists /\ has_modify THEN "update"
  ELSE "ignore"

\* match (file_exists, has_create, has_remove, has_modify)
Decide(file_exists, has_create, has_remove, has_modify) ==
  IF file_exists /\ has_create /\ has_remove THEN "update"
  ELSE IF file_exists /\ has_create /\ ~has_remove THEN "add"
  ELSE IF file_exists /\ ~has_create /\ has_modify THEN "update"
  ELSE IF ~file_exists /\ has_remove THEN "delete"
  ELSE "ignore"

\* The decision of the watcher for one path of a drained burst.
PathAction(d, evs, path) ==
  LET kinds == {evs[i].kind : i \in {j \in DOMAIN evs : evs[j].path = path}}
  IN Decide(path \in DOMAIN d, "Create" \in kinds, "Remove" \in kinds,
            "Modify" \in kinds)

\* grouped.keys(): the paths named by the events of a burst.
Grouped(evs) == {evs[i].path : i \in DOMAIN evs}

\* The sync state after the watcher has handled every group: update_file and
\* add_file insert a live entry stamped now, delete_file a tombstone.
WatcherState(state, d, evs, ts) ==
  LET acted == {path \in Grouped(evs) : PathAction(d, evs, path) # "ignore"}
  IN [path \in (DOMAIN state) \cup acted |->
        IF path \in acted
        THEN IF PathAction(d, evs, path) = "delete"
             THEN FileEntry(NoHash, TRUE, ts)
             ELSE FileEntry(calculate_file_hash(d[path]), FALSE, ts)
        ELSE state[path]]

\* The FileUpdatePush the watcher builds from a burst.
WatcherUpdate(d, evs) ==
  LET written == {path \in Grouped(evs) :
                    PathAction(d, evs, path) \in {"update", "add"}}
  IN FileUpdatePush(
       [path \in written |-> d[path]],
       {path \in Grouped(evs) : PathAction(d, evs, path) = "delete"})

\* ------------------------------------------------------------------ state
VARIABLES
  recServer,  \* SpecReconcile: first argument of determine_winning_files
  recPeer,    \* SpecReconcile: second argument
  recOut,     \* SpecReconcile: the four returned vectors
  recDone,    \* SpecReconcile: the function has been applied
  members,    \* the followers that are started in this behaviour
  edits,      \* user edits still to be made
  crashes,    \* follower crashes still to happen
  now,        \* Utc::now(), advanced by user edits
  disk,       \* node -> workspace files (path -> content)
  st,         \* node -> SyncConfig.state (path -> FileEntry)
  flag,       \* node -> ignore_file_events
  events,     \* node -> the watcher's mpsc channel of notify events
  wpc,        \* node -> watcher task: "off", "idle", "sleeping"
  wfirst,     \* node -> first_event of the burst being debounced (<<>> if none)
  conns,      \* PeerConnectionManager.connections (its key set)
  peers,      \* leader's PeersState.peers
  toF,        \* follower -> frames on the wire from the leader, in order
  toL,        \* follower -> frames on the wire to the leader, in order
  fchan,      \* follower -> file_change_tx/rx channel of the watcher
  lpc,        \* follower -> position of the leader's handler task for it
  lloc,       \* follower -> locals of that handler task
  fpc,        \* follower -> position of the follower's main task
  floc,       \* follower -> files_to_send_back held by the follower
  fpeers,     \* follower -> PeersState.peers of the follower
  fleader,    \* follower -> PeersState.leader of the follower (<<>> if None)
  hs,         \* follower -> progress of its initial sync (history)
  hsIn,       \* follower -> the two states the leader reconciled (history)
  lastEdit,   \* path -> the user edits made to it (history)
  lastCall,   \* the latest call of the connection manager (history)
  sync_state, \* SpecStore: SyncConfig.state, the map behind the mutex
  state_json, \* SpecStore: the map last written to state.json
  auto_save,  \* SpecStore: SyncConfig.auto_save
  spc,        \* SpecStore: task -> position inside its call of the store
  sop,        \* SpecStore: task -> the operation it called
  original_auto_save, \* SpecStore: task -> that local of batch_operations
  inserted,   \* SpecStore: task -> the entry its call inserted (<<>> if none)
  sclock,     \* SpecStore: insertions made so far (the clock of Utc::now())
  wlock,      \* SpecWire: holder of the connections mutex (<<>> if free)
  wt,         \* SpecWire: leader task -> its call of the connection manager
  wire,       \* SpecWire: follower -> what has been written to its writer
  broken,     \* SpecWire: followers whose socket no longer takes writes
  wcalls,     \* SpecWire: calls made so far
  registry,   \* SpecPeers: the PeersState behind PeersConfig's mutex
  batch,      \* SpecBatch: the latest batch call and the files it could not
              \* touch (history)
  initRun,    \* SpecBoot: state.json, the workspace, and initialise_state's
              \* result
  host,       \* SpecSandbox: the files and directories of the machine and
              \* the latest FileSystem call
  storage,    \* SpecStorage: peers.json and state.json before and after
              \* create_storage_files
  sel         \* SpecSelect: a follower's socket from the leader, its
              \* select loop and its watcher channel

recVars == <<recServer, recPeer, recOut, recDone>>
envVars == <<members, edits, crashes, now>>
fsVars == <<disk, st, events>>
watchVars == <<wpc, wfirst>>
regVars == <<conns, peers>>
netVars == <<toF, toL>>
leadVars == <<lpc, lloc>>
follVars == <<fpc, floc, fpeers, fleader>>
histVars == <<hs, hsIn, lastEdit>>
\* The variables only the specifications of single components change.
storeVars == <<sync_state, state_json, auto_save, spc, sop,
               original_auto_save, inserted, sclock>>
wireVars == <<wlock, wt, wire, broken, wcalls>>
auxVars == <<registry, batch, initRun, host, storage, sel>>
isoVars == <<recVars, storeVars, wireVars, auxVars>>
\* ... and the record of the latest connection-manager call.
restVars == <<isoVars, lastCall>>

vars == <<isoVars, envVars, fsVars, flag, watchVars, regVars, netVars, fchan,
          leadVars, follVars, histVars, lastCall>>

\* The tasks of one process that share its SyncConfig: the watcher calls
\* add_file, update_file and delete_file, a message handler batch_operations
\* (through the batch functions of the file system); each is given a path of
\* its own here, so that no call overwrites the entry of another.
Tasks == {"watcher", "handler"}
TaskPath(t) == IF t = "watcher" THEN "a" ELSE "b"
StoreOps == {"add_file", "update_file", "delete_file", "batch_operations"}
Op(kind, content) == [kind |-> kind, content |-> content]
NoOp == Op("none", <<>>)

\* A call of sync_batch_write_files (files: path -> content) or of
\* sync_batch_delete_files (paths), and the paths on which the file system
\* refuses the operation.
Batch(op, files, paths, denied) ==
  [op |-> op, files |-> files, paths |-> paths, denied |-> denied]
NoBatch == Batch("none", EmptyMap, {}, {})

\* PeersState: leader is <<>> for None.
PeersState(leader, peer_list) == [leader |-> leader, peers |-> peer_list]

\* The leader's tasks that call the connection manager concurrently (one
\* handler task per accepted connection, and the watcher).
Handlers == {"T1", "T2"}
SendKinds == {"send_to_peer", "broadcast_message", "broadcast_except"}

\* A call in progress: the function, its peer_id or exclude_peer argument,
\* the length of the serialized message, the calling task, and the locals of
\* the loop.
Send(pc, kind, arg, length, call, todo, cur, sent, failed) ==
  [pc |-> pc, kind |-> kind, arg |-> arg, length |-> length, call |-> call,
   todo |-> todo, cur |-> cur, sent |-> sent, failed |-> failed]
NoSend == Send("idle", "none", {}, 0, "", {}, <<>>, 0, {})

\* What a writer receives: the length prefix of write_u32, then the bytes of
\* write_all one after the other, each tagged with the task whose call wrote
\* it.
LenPrefix(call, length) == [kind |-> "len", call |-> call, length |-> length]
BodyByte(call) == [kind |-> "byte", call |-> call, length |-> 0]

\* The outcome of a call of the connection manager: the writers it wrote to
\* and the peers whose write failed (what broadcast returns; for send_to_peer
\* the peer of the Err).
Call(op, peer_ids, failed_peers) ==
  [op |-> op, peer_ids |-> peer_ids, failed_peers |-> failed_peers]
NoCall == Call("none", {}, {})

NoLocals == [snap |-> <<>>, win |-> NoWinners, msg |-> NoUpdate]
\* History of the user edits of one path: how many were made, the content the
\* latest one left (<<c>>, or <<>> for a deletion), and whether every started
\* follower had finished its handshake when each was made.
NoEdit == [count |-> 0, content |-> <<>>, settled |-> TRUE]

\* The workspace a node boots with: the files its sync state says are live.
ContentOf(hash) == CHOOSE c \in Contents : calculate_file_hash(c) = hash
DiskOf(state) ==
  [path \in {q \in DOMAIN state : ~state[q].is_deleted} |->
     ContentOf(state[path].hash)]

\* The workspace as compute_sync_state sees it: path -> content and the
\* modification time of the file's metadata.
DiskFile(content, mtime) == [content |-> content, mtime |-> mtime]
ScannedDisks ==
  UNION {[keys -> {DiskFile(c, t) : c \in Contents, t \in 1..MaxInitTs}] :
           keys \in SUBSET Paths}

\* An initialise_state run: what read_sync_state returned (the empty map if
\* state.json is missing or unreadable), the workspace, and what was written
\* to state.json.
Boot(saved, scanned, merged, done) ==
  [saved |-> saved, scanned |-> scanned, merged |-> merged, done |-> done]

BootIdle == initRun = Boot(EmptyMap, EmptyMap, EmptyMap, TRUE)

\* The machine on which the FileSystem calls of SpecSandbox run: files by
\* resolved absolute path, directories, and the latest call with its result.
\* The workspace root is /ws; at the start /ws/a and /a are files, /d is a
\* directory.
Root == <<"ws">>
FsCall(op, path, result) == [op |-> op, path |-> path, result |-> result]
Host(files, dirs, last, calls) ==
  [files |-> files, dirs |-> dirs, last |-> last, calls |-> calls]
HostStart ==
  Host([f \in {<<"ws", "a">>, <<"a">>} |-> 1], {<<>>, Root, <<"d">>},
       FsCall("none", <<>>, "none"), 0)

HostIdle == host = HostStart

\* The two files of .synclite before create_storage_files and after it; a
\* missing file is <<>>, an existing one <<its content>>.
Storage(peers_before, state_before, peers_json, state_file, result) ==
  [peers_before |-> peers_before, state_before |-> state_before,
   peers_json |-> peers_json, state_file |-> state_file, result |-> result]

StorageIdle == storage = Storage(<<>>, <<>>, <<>>, <<>>, "Ok")

\* The follower's side of its connection to the leader, byte by byte: what
\* the leader has written so far (history) with the number of frames begun
\* and the body bytes the last one still lacks, what has arrived and is
\* unread, what the pending receive_message_from_peer future has read, the
\* results the loop has matched on, the messages waiting in
\* file_change_rx, those forwarded, and whether the loop still runs.
Select(written, frames, left, socket, future, decoded, chan, forwarded, pc) ==
  [written |-> written, frames |-> frames, left |-> left, socket |-> socket,
   future |-> future, decoded |-> decoded, chan |-> chan,
   forwarded |-> forwarded, pc |-> pc]

SelIdle == sel = Select(<<>>, 0, 0, <<>>, <<>>, <<>>, 0, 0, "ended")

AuxIdle == BootIdle /\ HostIdle /\ StorageIdle /\ SelIdle

RecInit ==
  /\ recServer \in SyncStates
  /\ recPeer \in SyncStates
  /\ recOut = NoWinners
  /\ recDone = FALSE

RecIdle ==
  /\ recServer = EmptyMap
  /\ recPeer = EmptyMap
  /\ recOut = NoWinners
  /\ recDone = TRUE

\* The state of main() once the sync state is loaded and patched, before the
\* listener is bound (leader) or the leader is dialled (follower).
Booted(boot, started, budget, failures) ==
  /\ members = started
  /\ edits = budget
  /\ crashes = failures
  /\ now = MaxInitTs + 1
  /\ st = boot
  /\ disk = [n \in Nodes |-> DiskOf(boot[n])]
  /\ flag = [n \in Nodes |-> FALSE]
  /\ events = [n \in Nodes |-> <<>>]
  /\ wpc = [n \in Nodes |-> IF n = Leader THEN "idle" ELSE "off"]
  /\ wfirst = [n \in Nodes |-> <<>>]
  /\ conns = {}
  /\ peers = <<>>
  /\ toF = [p \in Followers |-> <<>>]
  /\ toL = [p \in Followers |-> <<>>]
  /\ fchan = [p \in Followers |-> <<>>]
  /\ lpc = [p \in Followers |-> "none"]
  /\ lloc = [p \in Followers |-> NoLocals]
  /\ fpc = [p \in Followers |-> "init"]
  /\ floc = [p \in Followers |-> {}]
  /\ fpeers = [p \in Followers |-> <<>>]
  /\ fleader = [p \in Followers |-> <<>>]
  /\ hs = [p \in Followers |-> "none"]
  /\ hsIn = [p \in Followers |-> [server |-> EmptyMap, peer |-> EmptyMap]]
  /\ lastEdit = [path \in Paths |-> NoEdit]
  /\ lastCall = NoCall
  /\ sync_state = EmptyMap
  /\ state_json = EmptyMap
  /\ auto_save = TRUE
  /\ spc = [t \in Tasks |-> "idle"]
  /\ sop = [t \in Tasks |-> NoOp]
  /\ original_auto_save = [t \in Tasks |-> TRUE]
  /\ inserted = [t \in Tasks |-> <<>>]
  /\ sclock = 0
  /\ wlock = <<>>
  /\ wt = [t \in Handlers |-> NoSend]
  /\ wire = [p \in Followers |-> <<>>]
  /\ broken = {}
  /\ wcalls = 0
  /\ registry = PeersState(<<>>, <<>>)
  /\ batch = NoBatch

Reconcile ==
  /\ ~recDone
  /\ recOut' = determine_winning_files(recServer, recPeer)
  /\ recDone' = TRUE
  /\ UNCHANGED <<recServer, recPeer>>
  /\ UNCHANGED <<storeVars, wireVars, auxVars, envVars, fsVars, flag,
                 watchVars, regVars, netVars, fchan, leadVars, follVars,
                 histVars, lastCall>>

\* --------------------------------------------------- connection manager
\* The follower's process is running and its socket is open.
Alive(p) == fpc[p] \in {"wait_ack", "loop", "ispr_sleep", "fup_sleep"}

\* send_message_to_peer on the writers of targets: the frame reaches every
\* running peer; a write to a peer that is gone either fails (failed) or is
\* accepted by the kernel and lost.
Delivered(targets, failed, message) ==
  [p \in Followers |->
     IF p \in targets \ failed /\ Alive(p)
     THEN Append(toF[p], message) ELSE toF[p]]

\* PeerConnectionManager::send_to_peer: no connection -> NotFound; a failed
\* write is returned as an error and the writer stays in the map.
send_to_peer(peer_id, message) ==
  IF peer_id \in conns
  THEN \E failed \in SUBSET {p \in {peer_id} : ~Alive(p)} :
         /\ toF' = Delivered({peer_id}, failed, message)
         /\ lastCall' = Call("send_to_peer", {peer_id}, failed)
  ELSE /\ toF' = toF
       /\ lastCall' = Call("send_to_peer", {}, {})

\* broadcast_except that ignores its exclude list.
broadcast_except_nobody(message, exclude_peer) ==
  \E failed \in SUBSET {p \in conns : ~Alive(p)} :
    /\ toF' = Delivered(conns, failed, message)
    /\ conns' = conns \ failed
    /\ lastCall' = Call("broadcast", conns, failed)

\* broadcast_except that reports the failed writes and keeps their writers.
broadcast_except_keeps(message, exclude_peer) ==
  \E failed \in SUBSET {p \in conns \ exclude_peer : ~Alive(p)} :
    /\ toF' = Delivered(conns \ exclude_peer, failed, message)
    /\ conns' = conns
    /\ lastCall' = Call("broadcast", conns \ exclude_peer, failed)

\* PeerConnectionManager::broadcast_except (broadcast_message is the case of
\* an empty exclude list): with the lock held, write to every connection not
\* excluded, then remove the connections whose write failed and return them.
broadcast_except(message, exclude_peer) ==
  \E failed \in SUBSET {p \in conns \ exclude_peer : ~Alive(p)} :
    /\ toF' = Delivered(conns \ exclude_peer, failed, message)
    /\ conns' = conns \ failed
    /\ lastCall' = Call("broadcast", conns \ exclude_peer, failed)

broadcast_message(message) == broadcast_except(message, {})

\* Events reach the channel only while the node's watcher exists.
Notify(n, evs) ==
  IF wpc[n] = "off" THEN events
  ELSE [events EXCEPT ![n] = @ \o evs]

\* sync_batch_write_files followed by sync_batch_delete_files as the handlers
\* of FileUpdatePush call them: each runs (and sets ignore_file_events) only
\* if its list is not empty.
ApplyUpdate(n, files_to_write, files_to_delete) ==
  LET d1 == BatchWriteDisk(disk[n], files_to_write)
      s1 == BatchWriteState(st[n], files_to_write, d1, now)
      e1 == WriteEvents(disk[n], SeqOf(DOMAIN files_to_write))
      d2 == BatchDeleteDisk(d1, files_to_delete)
      s2 == BatchDeleteState(s1, files_to_delete, <<>>, now)
      e2 == RemoveEvents(d1, SeqOf(files_to_delete))
  IN /\ disk' = [disk EXCEPT ![n] = d2]
     /\ st' = [st EXCEPT ![n] = s2]
     /\ events' = Notify(n, e1 \o e2)
     /\ flag' = IF DOMAIN files_to_write # {} \/ files_to_delete # {}
                THEN [flag EXCEPT ![n] = TRUE] ELSE flag

\* The 100 ms sleep of a handler ends after an idle watcher has taken the
\* events of the handler's writes from its channel.
WatcherCaughtUp(n) == wpc[n] = "idle" => events[n] = <<>>

\* ----------------------------------------------------------- leader tasks
\* listener.accept() returns for a follower that dials.
FDial(p) ==
  /\ p \in members
  /\ fpc[p] = "init"
  /\ fpc' = [fpc EXCEPT ![p] = "wait_ack"]
  /\ lpc' = [lpc EXCEPT ![p] = "accepted"]
  /\ UNCHANGED <<restVars, envVars, fsVars, flag, watchVars, regVars, netVars,
                 fchan, lloc, floc, fpeers, fleader, histVars>>

\* connection_manager.add_connection(peer_id, writer)
LAddConnection(p) ==
  /\ lpc[p] = "accepted"
  /\ conns' = conns \cup {p}
  /\ lpc' = [lpc EXCEPT ![p] = "registered"]
  /\ UNCHANGED <<restVars, envVars, fsVars, flag, watchVars, peers, netVars,
                 fchan, lloc, follVars, histVars>>

\* acknowledge_peer: send_to_peer(ConnectionAck); an error is only logged.
LAcknowledge(p) ==
  /\ lpc[p] = "registered"
  /\ send_to_peer(p, ConnectionAck(p))
  /\ lpc' = [lpc EXCEPT ![p] = "acked"]
  /\ UNCHANGED <<isoVars, envVars, fsVars, flag, watchVars, regVars, toL,
                 fchan, lloc, follVars, histVars>>

\* peers_config.add_peer(peer_id): push, then save.
LAddPeer(p) ==
  /\ lpc[p] = "acked"
  /\ peers' = Append(peers, p)
  /\ lpc' = [lpc EXCEPT ![p] = "added"]
  /\ UNCHANGED <<restVars, envVars, fsVars, flag, watchVars, conns, netVars,
                 fchan, lloc, follVars, histVars>>

\* peers_config.state().await.peers.clone(), the argument of
\* broadcast_peer_list, after add_peer.
LSnapshotPeers(p) ==
  /\ lpc[p] = "added"
  /\ lloc' = [lloc EXCEPT ![p].snap = peers]
  /\ lpc' = [lpc EXCEPT ![p] = "bcast"]
  /\ UNCHANGED <<restVars, envVars, fsVars, flag, watchVars, regVars, netVars,
                 fchan, follVars, histVars>>

\* broadcast_peer_list after add_peer.
LBroadcastPeers(p) ==
  /\ lpc[p] = "bcast"
  /\ broadcast_message(PeerListUpdate(lloc[p].snap))
  /\ lloc' = [lloc EXCEPT ![p] = NoLocals]
  /\ lpc' = [lpc EXCEPT ![p] = "recv"]
  /\ UNCHANGED <<isoVars, envVars, fsVars, flag, watchVars, peers, toL,
                 fchan, follVars, histVars>>

\* PeerMessage::InitialSyncPush arm up to the 100 ms sleep: reconcile, then
\* delete files_to_delete_from_server with the peer's timestamps.
LRecvInitialSyncPush(p) ==
  /\ lpc[p] = "recv"
  /\ toL[p] # <<>>
  /\ Head(toL[p]).type = "InitialSyncPush"
  /\ LET peer_sync_state == Head(toL[p]).sync_state
         server_sync_state == st[Leader]
         win == determine_winning_files(server_sync_state, peer_sync_state)
         del == win.files_to_delete_from_server
     IN /\ toL' = [toL EXCEPT ![p] = Tail(@)]
        /\ lloc' = [lloc EXCEPT ![p].win = win]
        /\ hsIn' = [hsIn EXCEPT ![p] = [server |-> server_sync_state,
                                        peer |-> peer_sync_state]]
        /\ IF del # {}
           THEN /\ flag' = [flag EXCEPT ![Leader] = TRUE]
                /\ disk' = [disk EXCEPT
                              ![Leader] = BatchDeleteDisk(@, del)]
                /\ events' = Notify(Leader,
                                    RemoveEvents(disk[Leader], SeqOf(del)))
                /\ st' = [st EXCEPT
                            ![Leader] = BatchDeleteState(@, del,
                                          <<peer_sync_state>>, now)]
                /\ lpc' = [lpc EXCEPT ![p] = "isp_sleep"]
           ELSE /\ lpc' = [lpc EXCEPT ![p] = "isp_send"]
                /\ UNCHANGED <<flag, disk, events, st>>
  /\ UNCHANGED <<restVars, envVars, watchVars, regVars, toF, fchan, follVars,
                 hs, lastEdit>>

\* ... the sleep ends: ignore_file_events.store(false).
LIspWake(p) ==
  /\ lpc[p] = "isp_sleep"
  /\ WatcherCaughtUp(Leader)
  /\ flag' = [flag EXCEPT ![Leader] = FALSE]
  /\ lpc' = [lpc EXCEPT ![p] = "isp_send"]
  /\ UNCHANGED <<restVars, envVars, fsVars, watchVars, regVars, netVars,
                 fchan, lloc, follVars, histVars>>

\* STEP 3 of the InitialSyncPush arm: the response is sent only if one of the
\* two winner lists is not empty; a file that cannot be read is left out.
LIspSend(p) ==
  /\ lpc[p] = "isp_send"
  /\ LET our_winning_files == lloc[p].win.server_winning_files
         their_winning_files == lloc[p].win.peer_winning_files
         my_winning_files_with_content ==
           [path \in our_winning_files \cap DOMAIN disk[Leader] |->
              disk[Leader][path]]
         sends == our_winning_files # {} \/ their_winning_files # {}
     IN /\ IF sends
           THEN send_to_peer(p, InitialSyncPushResponse(
                  my_winning_files_with_content,
                  lloc[p].win.files_to_delete_from_peer,
                  their_winning_files))
           ELSE toF' = toF /\ lastCall' = lastCall
        /\ hs' = [hs EXCEPT ![p] = IF sends /\ p \in conns /\ Alive(p)
                                   THEN "response" ELSE "done"]
  /\ lloc' = [lloc EXCEPT ![p] = NoLocals]
  /\ lpc' = [lpc EXCEPT ![p] = "recv"]
  /\ UNCHANGED <<isoVars, envVars, fsVars, flag, watchVars, regVars, toL,
                 fchan, follVars, hsIn, lastEdit>>

\* PeerMessage::FileUpdatePush arm up to the 100 ms sleep.
LRecvFileUpdatePush(p) ==
  /\ lpc[p] = "recv"
  /\ toL[p] # <<>>
  /\ Head(toL[p]).type = "FileUpdatePush"
  /\ ApplyUpdate(Leader, Head(toL[p]).files_to_write,
                 Head(toL[p]).files_to_delete)
  /\ toL' = [toL EXCEPT ![p] = Tail(@)]
  /\ lloc' = [lloc EXCEPT ![p].msg = Head(toL[p])]
  /\ lpc' = [lpc EXCEPT ![p] = "fup_sleep"]
  /\ UNCHANGED <<restVars, envVars, watchVars, regVars, toF, fchan, follVars,
                 histVars>>

\* ... the sleep ends: ignore_file_events.store(false).
LFupWake(p) ==
  /\ lpc[p] = "fup_sleep"
  /\ WatcherCaughtUp(Leader)
  /\ flag' = [flag EXCEPT ![Leader] = FALSE]
  /\ lpc' = [lpc EXCEPT ![p] = "fup_relay"]
  /\ UNCHANGED <<restVars, envVars, fsVars, watchVars, regVars, netVars,
                 fchan, lloc, follVars, histVars>>

\* Variant of LFupRelay that relays to the sender as well.
LFupRelayToAll(p) ==
  /\ lpc[p] = "fup_relay"
  /\ broadcast_message(FileUpdatePush(lloc[p].msg.files_to_write,
                                      lloc[p].msg.files_to_delete))
  /\ hs' = [hs EXCEPT ![p] = IF @ = "sent_back" THEN "done" ELSE @]
  /\ lloc' = [lloc EXCEPT ![p] = NoLocals]
  /\ lpc' = [lpc EXCEPT ![p] = "recv"]
  /\ UNCHANGED <<isoVars, envVars, fsVars, flag, watchVars, peers, toL,
                 fchan, follVars, hsIn, lastEdit>>

\* ... broadcast_except(FileUpdatePush{..}, vec![peer_id]).
LFupRelay(p) ==
  /\ lpc[p] = "fup_relay"
  /\ broadcast_except(FileUpdatePush(lloc[p].msg.files_to_write,
                                     lloc[p].msg.files_to_delete), {p})
  /\ hs' = [hs EXCEPT ![p] = IF @ = "sent_back" THEN "done" ELSE @]
  /\ lloc' = [lloc EXCEPT ![p] = NoLocals]
  /\ lpc' = [lpc EXCEPT ![p] = "recv"]
  /\ UNCHANGED <<isoVars, envVars, fsVars, flag, watchVars, peers, toL,
                 fchan, follVars, hsIn, lastEdit>>

\* Variant of LRecvError in which the reader task ends without teardown.
LRecvErrorEnds(p) ==
  /\ lpc[p] = "recv"
  /\ toL[p] = <<>>
  /\ fpc[p] \in {"dead", "exited"}
  /\ lpc' = [lpc EXCEPT ![p] = "closed"]
  /\ UNCHANGED <<restVars, envVars, fsVars, flag, watchVars, regVars, netVars,
                 fchan, lloc, follVars, histVars>>

\* receive_message_from_peer returns Err: the follower is gone and every
\* frame it had sent has been read.  The handler leaves its loop.
LRecvError(p) ==
  /\ lpc[p] = "recv"
  /\ toL[p] = <<>>
  /\ fpc[p] \in {"dead", "exited"}
  /\ lpc' = [lpc EXCEPT ![p] = "td_connection"]
  /\ UNCHANGED <<restVars, envVars, fsVars, flag, watchVars, regVars, netVars,
                 fchan, lloc, follVars, histVars>>

\* Bytes that receive_message_from_peer cannot decode into a PeerMessage: a
\* body that is not UTF-8 or not the JSON of a PeerMessage, or a frame cut
\* short.
Malformed == [type |-> "Malformed"]

\* A connected peer's stream carries such bytes.
FSendMalformed(p) ==
  /\ fpc[p] = "loop"
  /\ crashes > 0
  /\ crashes' = crashes - 1
  /\ toL' = [toL EXCEPT ![p] = Append(@, Malformed)]
  /\ UNCHANGED <<restVars, members, edits, now, fsVars, flag, watchVars,
                 regVars, toF, fchan, leadVars, follVars, histVars>>

\* Variant of LRecvMalformed in which the handler drops the frame and goes on
\* reading.
LRecvMalformedSkipped(p) ==
  /\ lpc[p] = "recv"
  /\ toL[p] # <<>>
  /\ Head(toL[p]) = Malformed
  /\ toL' = [toL EXCEPT ![p] = Tail(@)]
  /\ UNCHANGED <<restVars, envVars, fsVars, flag, watchVars, regVars, toF,
                 fchan, leadVars, follVars, histVars>>

\* receive_message_from_peer returns Err on a frame it cannot decode:
\* Err(_) => break.
LRecvMalformed(p) ==
  /\ lpc[p] = "recv"
  /\ toL[p] # <<>>
  /\ Head(toL[p]) = Malformed
  /\ toL' = [toL EXCEPT ![p] = Tail(@)]
  /\ lpc' = [lpc EXCEPT ![p] = "td_connection"]
  /\ UNCHANGED <<restVars, envVars, fsVars, flag, watchVars, regVars, toF,
                 fchan, lloc, follVars, histVars>>

\* connection_manager.remove_connection(&peer_id)
LRemoveConnection(p) ==
  /\ lpc[p] = "td_connection"
  /\ conns' = conns \ {p}
  /\ lpc' = [lpc EXCEPT ![p] = "td_peer"]
  /\ UNCHANGED <<restVars, envVars, fsVars, flag, watchVars, peers, netVars,
                 fchan, lloc, follVars, histVars>>

\* LRemovePeer that leaves the peer list as it is.
LRemovePeerKept(p) ==
  /\ lpc[p] = "td_peer"
  /\ peers' = peers
  /\ lpc' = [lpc EXCEPT ![p] = "td_snapshot"]
  /\ UNCHANGED <<restVars, envVars, fsVars, flag, watchVars, conns, netVars,
                 fchan, lloc, follVars, histVars>>

\* peers_config.remove_peer(&peer_id): retain(|p| p != peer), then save.
LRemovePeer(p) ==
  /\ lpc[p] = "td_peer"
  /\ peers' = SelectSeq(peers, LAMBDA q : q # p)
  /\ lpc' = [lpc EXCEPT ![p] = "td_snapshot"]
  /\ UNCHANGED <<restVars, envVars, fsVars, flag, watchVars, conns, netVars,
                 fchan, lloc, follVars, histVars>>

\* peers_config.state().await.peers.clone() after remove_peer.
LTeardownSnapshot(p) ==
  /\ lpc[p] = "td_snapshot"
  /\ lloc' = [lloc EXCEPT ![p].snap = peers]
  /\ lpc' = [lpc EXCEPT ![p] = "td_bcast"]
  /\ UNCHANGED <<restVars, envVars, fsVars, flag, watchVars, regVars, netVars,
                 fchan, follVars, histVars>>

\* broadcast_peer_list after remove_peer; the handler task ends.
LTeardownBroadcast(p) ==
  /\ lpc[p] = "td_bcast"
  /\ broadcast_message(PeerListUpdate(lloc[p].snap))
  /\ lloc' = [lloc EXCEPT ![p] = NoLocals]
  /\ lpc' = [lpc EXCEPT ![p] = "closed"]
  /\ UNCHANGED <<isoVars, envVars, fsVars, flag, watchVars, peers, toL,
                 fchan, follVars, histVars>>

\* --------------------------------------------------------- follower tasks
\* The follower's process ends (exit or crash): its tasks and channels go,
\* its socket closes; what it had already written stays readable.
Gone(p, status) ==
  /\ fpc' = [fpc EXCEPT ![p] = status]
  /\ wpc' = [wpc EXCEPT ![p] = "off"]
  /\ wfirst' = [wfirst EXCEPT ![p] = <<>>]
  /\ events' = [events EXCEPT ![p] = <<>>]
  /\ fchan' = [fchan EXCEPT ![p] = <<>>]
  /\ toF' = [toF EXCEPT ![p] = <<>>]
  /\ flag' = [flag EXCEPT ![p] = FALSE]
  /\ floc' = [floc EXCEPT ![p] = {}]

\* First frame is ConnectionAck: set_leader, send InitialSyncPush with a
\* snapshot of the sync state, spawn the watcher, enter the select loop.
FRecvAck(p) ==
  /\ fpc[p] = "wait_ack"
  /\ toF[p] # <<>>
  /\ Head(toF[p]).type = "ConnectionAck"
  /\ fleader' = [fleader EXCEPT ![p] = <<Head(toF[p]).leader_id>>]
  /\ toF' = [toF EXCEPT ![p] = Tail(@)]
  /\ toL' = [toL EXCEPT ![p] = Append(@, InitialSyncPush(st[p]))]
  /\ wpc' = [wpc EXCEPT ![p] = "idle"]
  /\ fpc' = [fpc EXCEPT ![p] = "loop"]
  /\ hs' = [hs EXCEPT ![p] = "pushed"]
  /\ UNCHANGED <<restVars, envVars, fsVars, flag, wfirst, regVars, fchan,
                 leadVars, floc, fpeers, hsIn, lastEdit>>

\* Variant of FRecvUnexpected in which any first frame lets the follower
\* proceed as if it had been acknowledged.
FRecvUnexpectedProceeds(p) ==
  /\ fpc[p] = "wait_ack"
  /\ toF[p] # <<>>
  /\ Head(toF[p]).type # "ConnectionAck"
  /\ toF' = [toF EXCEPT ![p] = Tail(@)]
  /\ toL' = [toL EXCEPT ![p] = Append(@, InitialSyncPush(st[p]))]
  /\ wpc' = [wpc EXCEPT ![p] = "idle"]
  /\ fpc' = [fpc EXCEPT ![p] = "loop"]
  /\ hs' = [hs EXCEPT ![p] = "pushed"]
  /\ UNCHANGED <<restVars, envVars, fsVars, flag, wfirst, regVars, fchan,
                 leadVars, floc, fpeers, fleader, hsIn, lastEdit>>

\* First frame is any other ServerMessage: std::process::exit(1).
FRecvUnexpected(p) ==
  /\ fpc[p] = "wait_ack"
  /\ toF[p] # <<>>
  /\ Head(toF[p]).type # "ConnectionAck"
  /\ Gone(p, "exited")
  /\ UNCHANGED <<restVars, envVars, disk, st, regVars, toL, leadVars, fpeers,
                 fleader, histVars>>

\* Reading the first frame fails (the connection is reset or the frame does
\* not decode): std::process::exit(1).
FRecvAckError(p) ==
  /\ fpc[p] = "wait_ack"
  /\ crashes > 0
  /\ Gone(p, "exited")
  /\ crashes' = crashes - 1
  /\ UNCHANGED <<restVars, members, edits, now, disk, st, regVars, toL,
                 leadVars, fpeers, fleader, histVars>>

\* ServerMessage::PeerListUpdate arm: set_peers(peers).
FRecvPeerListUpdate(p) ==
  /\ fpc[p] = "loop"
  /\ toF[p] # <<>>
  /\ Head(toF[p]).type = "PeerListUpdate"
  /\ fpeers' = [fpeers EXCEPT ![p] = Head(toF[p]).peers]
  /\ toF' = [toF EXCEPT ![p] = Tail(@)]
  /\ UNCHANGED <<restVars, envVars, fsVars, flag, watchVars, regVars, toL,
                 fchan, leadVars, fpc, floc, fleader, histVars>>

\* ServerMessage::InitialSyncPushResponse arm up to the 100 ms sleep: delete
\* files_to_delete, then write files_to_update.
FRecvInitialSyncPushResponse(p) ==
  /\ fpc[p] = "loop"
  /\ toF[p] # <<>>
  /\ Head(toF[p]).type = "InitialSyncPushResponse"
  /\ LET m == Head(toF[p])
         d1 == BatchDeleteDisk(disk[p], m.files_to_delete)
         s1 == BatchDeleteState(st[p], m.files_to_delete, <<>>, now)
         e1 == RemoveEvents(disk[p], SeqOf(m.files_to_delete))
         d2 == BatchWriteDisk(d1, m.files_to_update)
         s2 == BatchWriteState(s1, m.files_to_update, d2, now)
         e2 == WriteEvents(d1, SeqOf(DOMAIN m.files_to_update))
     IN /\ disk' = [disk EXCEPT ![p] = d2]
        /\ st' = [st EXCEPT ![p] = s2]
        /\ events' = Notify(p, e1 \o e2)
        /\ flag' = IF m.files_to_delete # {} \/ DOMAIN m.files_to_update # {}
                   THEN [flag EXCEPT ![p] = TRUE] ELSE flag
        /\ floc' = [floc EXCEPT ![p] = m.files_to_send_back]
  /\ toF' = [toF EXCEPT ![p] = Tail(@)]
  /\ fpc' = [fpc EXCEPT ![p] = "ispr_sleep"]
  /\ UNCHANGED <<restVars, envVars, watchVars, regVars, toL, fchan, leadVars,
                 fpeers, fleader, histVars>>

\* ... the sleep ends: clear the flag, read files_to_send_back and send them
\* in a FileUpdatePush if any could be read.
FIsprWake(p) ==
  /\ fpc[p] = "ispr_sleep"
  /\ WatcherCaughtUp(p)
  /\ flag' = [flag EXCEPT ![p] = FALSE]
  /\ LET our_winning_files ==
           [path \in floc[p] \cap DOMAIN disk[p] |-> disk[p][path]]
     IN IF DOMAIN our_winning_files # {}
        THEN /\ toL' = [toL EXCEPT
                          ![p] = Append(@, FileUpdatePush(our_winning_files,
                                                          {}))]
             /\ hs' = [hs EXCEPT ![p] = "sent_back"]
        ELSE /\ toL' = toL
             /\ hs' = [hs EXCEPT ![p] = "done"]
  /\ floc' = [floc EXCEPT ![p] = {}]
  /\ fpc' = [fpc EXCEPT ![p] = "loop"]
  /\ UNCHANGED <<restVars, envVars, fsVars, watchVars, regVars, toF, fchan,
                 leadVars, fpeers, fleader, hsIn, lastEdit>>

\* ServerMessage::FileUpdatePush arm up to the 100 ms sleep.
FRecvFileUpdatePush(p) ==
  /\ fpc[p] = "loop"
  /\ toF[p] # <<>>
  /\ Head(toF[p]).type = "FileUpdatePush"
  /\ ApplyUpdate(p, Head(toF[p]).files_to_write, Head(toF[p]).files_to_delete)
  /\ toF' = [toF EXCEPT ![p] = Tail(@)]
  /\ fpc' = [fpc EXCEPT ![p] = "fup_sleep"]
  /\ UNCHANGED <<restVars, envVars, watchVars, regVars, toL, fchan, leadVars,
                 floc, fpeers, fleader, histVars>>

\* ... the sleep ends: ignore_file_events.store(false).
FFupWake(p) ==
  /\ fpc[p] = "fup_sleep"
  /\ WatcherCaughtUp(p)
  /\ flag' = [flag EXCEPT ![p] = FALSE]
  /\ fpc' = [fpc EXCEPT ![p] = "loop"]
  /\ UNCHANGED <<restVars, envVars, fsVars, watchVars, regVars, netVars,
                 fchan, leadVars, floc, fpeers, fleader, histVars>>

\* select! branch file_change_rx.recv(): forward the watcher's message.
FSendChange(p) ==
  /\ fpc[p] = "loop"
  /\ fchan[p] # <<>>
  /\ toL' = [toL EXCEPT ![p] = Append(@, Head(fchan[p]))]
  /\ fchan' = [fchan EXCEPT ![p] = Tail(@)]
  /\ UNCHANGED <<restVars, envVars, fsVars, flag, watchVars, regVars, toF,
                 leadVars, follVars, histVars>>

\* The follower disconnects abruptly.
FCrash(p) ==
  /\ crashes > 0
  /\ Alive(p)
  /\ Gone(p, "dead")
  /\ crashes' = crashes - 1
  /\ UNCHANGED <<restVars, members, edits, now, disk, st, regVars, toL,
                 leadVars, fpeers, fleader, histVars>>

\* ------------------------------------------------------------- watcher task
\* rx.recv() returns the first event while ignore_file_events is set: the
\* event is dropped and the loop continues.
WDiscard(n) ==
  /\ wpc[n] = "idle"
  /\ events[n] # <<>>
  /\ flag[n]
  /\ events' = [events EXCEPT ![n] = Tail(@)]
  /\ UNCHANGED <<restVars, envVars, disk, st, flag, watchVars, regVars,
                 netVars, fchan, leadVars, follVars, histVars>>

\* rx.recv() returns the first event while the flag is clear: the watcher
\* starts its 150 ms sleep.
WFirstEvent(n) ==
  /\ wpc[n] = "idle"
  /\ events[n] # <<>>
  /\ ~flag[n]
  /\ wfirst' = [wfirst EXCEPT ![n] = <<Head(events[n])>>]
  /\ events' = [events EXCEPT ![n] = Tail(@)]
  /\ wpc' = [wpc EXCEPT ![n] = "sleeping"]
  /\ UNCHANGED <<restVars, envVars, disk, st, flag, regVars, netVars, fchan,
                 leadVars, follVars, histVars>>

\* The sleep ends: drain the channel, group, decide per path, update the sync
\* state.  What the leader and the follower do with the result differs.
Drain(n) ==
  /\ wpc[n] = "sleeping"
  /\ st' = [st EXCEPT
              ![n] = WatcherState(@, disk[n], wfirst[n] \o events[n], now)]
  /\ events' = [events EXCEPT ![n] = <<>>]
  /\ wfirst' = [wfirst EXCEPT ![n] = <<>>]
  /\ wpc' = [wpc EXCEPT ![n] = "idle"]

\* Variant of WDrainLeader whose broadcast leaves out the deletions.
WDrainLeaderDropsDeletes ==
  /\ Drain(Leader)
  /\ broadcast_message(
       FileUpdatePush(WatcherUpdate(disk[Leader],
                                    wfirst[Leader] \o events[Leader])
                        .files_to_write, {}))
  /\ UNCHANGED <<isoVars, envVars, disk, flag, peers, toL, fchan, leadVars,
                 follVars, histVars>>

\* Leader watcher: connection_manager.broadcast_message(FileUpdatePush).
WDrainLeader ==
  /\ Drain(Leader)
  /\ broadcast_message(WatcherUpdate(disk[Leader],
                                     wfirst[Leader] \o events[Leader]))
  /\ UNCHANGED <<isoVars, envVars, disk, flag, peers, toL, fchan, leadVars,
                 follVars, histVars>>

\* Follower watcher: file_change_tx.send(FileUpdatePush).
WDrainFollower(p) ==
  /\ Drain(p)
  /\ fchan' = [fchan EXCEPT
                 ![p] = Append(@, WatcherUpdate(disk[p],
                                                wfirst[p] \o events[p]))]
  /\ UNCHANGED <<restVars, envVars, disk, flag, regVars, netVars, leadVars,
                 follVars, histVars>>

\* ------------------------------------------------------------------- users
\* A node's handshake is over (the leader has none).
Settled(n) == n = Leader \/ (Alive(n) /\ hs[n] = "done")

Recorded(path, content) ==
  [count |-> lastEdit[path].count + 1, content |-> content,
   settled |-> lastEdit[path].settled /\ \A m \in members : Settled(m)]

\* A user creates a file or changes its content in the workspace of a node
\* whose watcher is running.
UserWrite(n, path, content) ==
  /\ edits > 0
  /\ wpc[n] # "off"
  /\ path \in DOMAIN disk[n] => disk[n][path] # content
  /\ disk' = [disk EXCEPT ![n] = Put(@, path, content)]
  /\ events' = Notify(n, <<Event(path,
                                 IF path \in DOMAIN disk[n]
                                 THEN "Modify" ELSE "Create", FALSE)>>)
  /\ edits' = edits - 1
  /\ now' = now + 1
  /\ lastEdit' = [lastEdit EXCEPT ![path] = Recorded(path, <<content>>)]
  /\ UNCHANGED <<restVars, members, crashes, st, flag, watchVars, regVars,
                 netVars, fchan, leadVars, follVars, hs, hsIn>>

\* A user deletes a file.
UserDelete(n, path) ==
  /\ edits > 0
  /\ wpc[n] # "off"
  /\ path \in DOMAIN disk[n]
  /\ disk' = [disk EXCEPT ![n] = BatchDeleteDisk(@, {path})]
  /\ events' = Notify(n, <<Event(path, "Remove", FALSE)>>)
  /\ edits' = edits - 1
  /\ now' = now + 1
  /\ lastEdit' = [lastEdit EXCEPT ![path] = Recorded(path, <<>>)]
  /\ UNCHANGED <<restVars, members, crashes, st, flag, watchVars, regVars,
                 netVars, fchan, leadVars, follVars, hs, hsIn>>

\* A user saves an existing file atomically (a new file replaces it): the
\* notifier reports Remove and Create for the path, and on some platforms a
\* Modify after them.
UserReplace(n, path, content) ==
  /\ edits > 0
  /\ wpc[n] # "off"
  /\ path \in DOMAIN disk[n]
  /\ disk[n][path] # content
  /\ disk' = [disk EXCEPT ![n] = Put(@, path, content)]
  /\ \E tail \in {<<>>, <<Event(path, "Modify", FALSE)>>} :
       events' = Notify(n, <<Event(path, "Remove", FALSE),
                             Event(path, "Create", FALSE)>> \o tail)
  /\ edits' = edits - 1
  /\ now' = now + 1
  /\ lastEdit' = [lastEdit EXCEPT ![path] = Recorded(path, <<content>>)]
  /\ UNCHANGED <<restVars, members, crashes, st, flag, watchVars, regVars,
                 netVars, fchan, leadVars, follVars, hs, hsIn>>

\* ------------------------------------------------------- sync-state store
\* The variables the store's steps leave alone.
nonStoreVars == <<recVars, wireVars, auxVars, envVars, fsVars, flag,
                  watchVars, regVars, netVars, fchan, leadVars, follVars,
                  histVars, lastCall>>

\* Calls that have started and not yet inserted.
Pending == {t \in Tasks : spc[t] \in {"insert", "b_read", "b_disable", "b_ops"}}

\* A task calls add_file, update_file, delete_file or batch_operations.
StoreCall(t, kind, content) ==
  /\ spc[t] = "idle"
  /\ sclock + Cardinality(Pending) < MaxCalls
  /\ sop' = [sop EXCEPT ![t] = Op(kind, content)]
  /\ spc' = [spc EXCEPT ![t] = IF kind = "batch_operations" THEN "b_read"
                                ELSE "insert"]
  /\ inserted' = [inserted EXCEPT ![t] = <<>>]
  /\ UNCHANGED <<sync_state, state_json, auto_save, original_auto_save,
                 sclock, nonStoreVars>>

\* Variant of EntryOf whose deletions clear the hash and leave is_deleted
\* false.
EntryOfUnflagged(op, ts) ==
  IF op.content = <<>> THEN FileEntry(NoHash, FALSE, ts)
  ELSE LiveEntry(op.content[1], ts)

\* The entry an operation inserts, stamped with the time of the insertion: a
\* tombstone for delete_file and for the closure of sync_batch_delete_files
\* (no content), a live entry with the content's hash for add_file,
\* update_file and the closure of sync_batch_write_files.
EntryOf(op, ts) ==
  IF op.content = <<>> THEN Tombstone(ts)
  ELSE LiveEntry(op.content[1], ts)

\* state.lock(); state.insert(path, entry); the lock is dropped.
Insert(t) ==
  /\ sync_state' = Put(sync_state, TaskPath(t), EntryOf(sop[t], sclock + 1))
  /\ inserted' = [inserted EXCEPT ![t] = <<EntryOf(sop[t], sclock + 1)>>]
  /\ sclock' = sclock + 1

\* add_file, update_file, delete_file: the block that mutates the map.
StoreInsert(t) ==
  /\ spc[t] = "insert"
  /\ Insert(t)
  /\ spc' = [spc EXCEPT ![t] = "flag"]
  /\ UNCHANGED <<state_json, auto_save, sop, original_auto_save,
                 nonStoreVars>>

\* let auto_save = *self.auto_save.lock().await; if it is false the call
\* returns Ok(()) at once.
StoreReadAutoSave(t) ==
  /\ spc[t] = "flag"
  /\ spc' = [spc EXCEPT ![t] = IF auto_save THEN "save" ELSE "returned"]
  /\ UNCHANGED <<sync_state, state_json, auto_save, sop, original_auto_save,
                 inserted, sclock, nonStoreVars>>

\* save(): state.lock(), write_json(state.json, &*state); the write succeeds.
StoreSave(t) ==
  /\ spc[t] = "save"
  /\ state_json' = sync_state
  /\ spc' = [spc EXCEPT ![t] = "returned"]
  /\ UNCHANGED <<sync_state, auto_save, sop, original_auto_save, inserted,
                 sclock, nonStoreVars>>

\* batch_operations: let original_auto_save = *auto_save.
BatchReadAutoSave(t) ==
  /\ spc[t] = "b_read"
  /\ original_auto_save' = [original_auto_save EXCEPT ![t] = auto_save]
  /\ spc' = [spc EXCEPT ![t] = "b_disable"]
  /\ UNCHANGED <<sync_state, state_json, auto_save, sop, inserted, sclock,
                 nonStoreVars>>

\* batch_operations: *auto_save = false.
BatchDisable(t) ==
  /\ spc[t] = "b_disable"
  /\ auto_save' = FALSE
  /\ spc' = [spc EXCEPT ![t] = "b_ops"]
  /\ UNCHANGED <<sync_state, state_json, sop, original_auto_save, inserted,
                 sclock, nonStoreVars>>

\* batch_operations: operations(&mut state) under the state lock.
BatchOperations(t) ==
  /\ spc[t] = "b_ops"
  /\ Insert(t)
  /\ spc' = [spc EXCEPT ![t] = "b_restore"]
  /\ UNCHANGED <<state_json, auto_save, sop, original_auto_save,
                 nonStoreVars>>

\* batch_operations: *auto_save = original_auto_save, then save() only if
\* original_auto_save, else Ok(()).
BatchRestore(t) ==
  /\ spc[t] = "b_restore"
  /\ auto_save' = original_auto_save[t]
  /\ spc' = [spc EXCEPT ![t] = IF original_auto_save[t] THEN "save"
                                ELSE "returned"]
  /\ UNCHANGED <<sync_state, state_json, sop, original_auto_save, inserted,
                 sclock, nonStoreVars>>

\* The call has returned Ok(()) and the task goes on.
StoreReturn(t) ==
  /\ spc[t] = "returned"
  /\ spc' = [spc EXCEPT ![t] = "idle"]
  /\ sop' = [sop EXCEPT ![t] = NoOp]
  /\ inserted' = [inserted EXCEPT ![t] = <<>>]
  /\ UNCHANGED <<sync_state, state_json, auto_save, original_auto_save,
                 sclock, nonStoreVars>>

\* --------------------------------------- connection manager, write by write
\* The variables the steps of a call leave alone.
nonWireVars == <<recVars, storeVars, auxVars, envVars, fsVars, flag,
                 watchVars, peers, netVars, fchan, leadVars, follVars,
                 histVars, lastCall>>

\* add_connection: the writer of a newly accepted connection is inserted
\* under the lock.
WireAddConnection(p) ==
  /\ wlock = <<>>
  /\ p \notin conns
  /\ p \notin broken
  /\ wire[p] = <<>>
  /\ conns' = conns \cup {p}
  /\ UNCHANGED <<wireVars, nonWireVars>>

\* A follower's socket stops taking writes (the follower is gone): every
\* later write to it fails.
WireBreak(p) ==
  /\ p \in conns
  /\ p \notin broken
  /\ broken' = broken \cup {p}
  /\ UNCHANGED <<wlock, wt, wire, wcalls, conns, nonWireVars>>

\* A task calls send_to_peer(arg, message), broadcast_message(message) or
\* broadcast_except(message, arg) with a message of the given length.
WireCall(t, kind, arg, length) ==
  /\ wt[t].pc = "idle"
  /\ wcalls < MaxSends
  /\ wcalls' = wcalls + 1
  /\ wt' = [wt EXCEPT
              ![t] = Send(IF kind = "send_to_peer" THEN "lock" ELSE "count",
                          kind, arg, length, t, {}, <<>>, 0, {})]
  /\ UNCHANGED <<wlock, wire, broken, conns, nonWireVars>>

\* broadcast_message, broadcast_except: connection_count() takes the lock,
\* reads the size and drops the lock; zero returns at once.
WireCount(t) ==
  /\ wt[t].pc = "count"
  /\ wlock = <<>>
  /\ wt' = [wt EXCEPT ![t] = IF conns = {} THEN NoSend
                             ELSE [@ EXCEPT !.pc = "lock"]]
  /\ UNCHANGED <<wlock, wire, broken, wcalls, conns, nonWireVars>>

\* The writers a call goes through once it holds the lock.
Targets(call) ==
  IF call.kind = "send_to_peer" THEN conns \cap call.arg
  ELSE IF call.kind = "broadcast_message" THEN conns
  ELSE conns \ call.arg

\* Variant of WireLock that does not wait for the lock to be free.
WireLockUnguarded(t) ==
  /\ wt[t].pc = "lock"
  /\ wlock' = <<t>>
  /\ wt' = [wt EXCEPT ![t] = [@ EXCEPT !.pc = "next",
                                       !.todo = Targets(wt[t])]]
  /\ UNCHANGED <<wire, broken, wcalls, conns, nonWireVars>>

\* self.connections.lock().await, then the peer ids are collected.
WireLock(t) ==
  /\ wt[t].pc = "lock"
  /\ wlock = <<>>
  /\ wlock' = <<t>>
  /\ wt' = [wt EXCEPT ![t] = [@ EXCEPT !.pc = "next",
                                       !.todo = Targets(wt[t])]]
  /\ UNCHANGED <<wire, broken, wcalls, conns, nonWireVars>>

\* for peer_id in peer_ids: the next writer (a HashMap has no fixed order).
WireNext(t) ==
  /\ wt[t].pc = "next"
  /\ \E p \in wt[t].todo :
       wt' = [wt EXCEPT ![t] = [@ EXCEPT !.pc = "len", !.cur = <<p>>,
                                        !.sent = 0, !.todo = @ \ {p}]]
  /\ UNCHANGED <<wlock, wire, broken, wcalls, conns, nonWireVars>>

\* A write to a broken socket returns an error: send_message_to_peer returns
\* it, the broadcasts note the peer and go on, send_to_peer returns.
WriteFails(t) ==
  [wt[t] EXCEPT !.pc = "next", !.failed = @ \cup {wt[t].cur[1]}]

\* send_message_to_peer: writer.write_u32(length).
WireWriteLen(t) ==
  /\ wt[t].pc = "len"
  /\ LET p == wt[t].cur[1]
     IN IF p \in broken
        THEN /\ wt' = [wt EXCEPT ![t] = WriteFails(t)]
             /\ wire' = wire
        ELSE /\ wt' = [wt EXCEPT ![t] = [@ EXCEPT !.pc = "body"]]
             /\ wire' = [wire EXCEPT
                           ![p] = Append(@, LenPrefix(wt[t].call,
                                                      wt[t].length))]
  /\ UNCHANGED <<wlock, broken, wcalls, conns, nonWireVars>>

\* send_message_to_peer: writer.write_all(message_bytes), a byte at a time;
\* after the last byte flush() and the next writer.
WireWriteBody(t) ==
  /\ wt[t].pc = "body"
  /\ LET p == wt[t].cur[1]
     IN IF p \in broken
        THEN /\ wt' = [wt EXCEPT ![t] = WriteFails(t)]
             /\ wire' = wire
        ELSE /\ wt' = [wt EXCEPT
                         ![t] = [@ EXCEPT
                                   !.sent = @ + 1,
                                   !.pc = IF wt[t].sent + 1 = wt[t].length
                                          THEN "next" ELSE "body"]]
             /\ wire' = [wire EXCEPT ![p] = Append(@, BodyByte(wt[t].call))]
  /\ UNCHANGED <<wlock, broken, wcalls, conns, nonWireVars>>

\* The loop is over: the broadcasts remove the failed connections; the
\* function returns and the lock is dropped.
WireUnlock(t) ==
  /\ wt[t].pc = "next"
  /\ wt[t].todo = {}
  /\ conns' = IF wt[t].kind = "send_to_peer" THEN conns
              ELSE conns \ wt[t].failed
  /\ wlock' = <<>>
  /\ wt' = [wt EXCEPT ![t] = NoSend]
  /\ UNCHANGED <<wire, broken, wcalls, nonWireVars>>

\* ---------------------------------------------------- state initializer
\* compute_sync_state: a live entry for every file under the workspace, with
\* the hash of its content and the modification time of its metadata.
compute_sync_state(scanned) ==
  [path \in DOMAIN scanned |->
     FileEntry(calculate_file_hash(scanned[path].content), FALSE,
               scanned[path].mtime)]

\* A tombstone stamped later than the entry it replaces.
deletedRestamped(entry) == FileEntry(NoHash, TRUE, entry.last_modified + 1)

\* FileEntry::deleted
deleted(entry) == FileEntry(NoHash, TRUE, entry.last_modified)

\* files_to_update: the entries of sync_state_2 that are new or differ in
\* hash and are strictly newer, and a tombstone for every entry of
\* sync_state_1 that sync_state_2 lacks.
files_to_update(sync_state_1, sync_state_2) ==
  LET newer == {path \in DOMAIN sync_state_2 :
                  \/ path \notin DOMAIN sync_state_1
                  \/ /\ sync_state_1[path].hash # sync_state_2[path].hash
                     /\ sync_state_2[path].last_modified
                          > sync_state_1[path].last_modified}
      gone == (DOMAIN sync_state_1) \ (DOMAIN sync_state_2)
  IN [path \in newer \cup gone |->
        IF path \in newer THEN sync_state_2[path]
        ELSE deleted(sync_state_1[path])]

\* merge_sync_states: sync_state_1 with the updates inserted.
merge_sync_states(sync_state_1, sync_state_2) ==
  LET updates == files_to_update(sync_state_1, sync_state_2)
  IN [path \in (DOMAIN sync_state_1) \cup (DOMAIN updates) |->
        IF path \in DOMAIN updates THEN updates[path]
        ELSE sync_state_1[path]]

\* The variables initialise_state leaves alone.
nonBootVars == <<recVars, storeVars, wireVars, registry, batch, host,
                 storage, envVars, fsVars, flag, watchVars, regVars, netVars,
                 fchan, leadVars, follVars, histVars, lastCall, sel>>

\* initialise_state: read, scan, merge, write state.json.
InitialiseState ==
  /\ ~initRun.done
  /\ initRun' =
       [initRun EXCEPT
          !.merged = merge_sync_states(initRun.saved,
                                       compute_sync_state(initRun.scanned)),
          !.done = TRUE]
  /\ UNCHANGED nonBootVars

\* ---------------------------------------------------- storage bootstrap
\* The peers.json files a previous run can have left: no leader or a leader,
\* and at most one peer.
StoredPeers ==
  {PeersState(leader, peer_list) :
     leader \in {<<>>, <<Leader>>},
     peer_list \in {<<>>} \cup {<<p>> : p \in Followers}}

\* The variables create_storage_files leaves alone.
nonStorageVars == <<recVars, storeVars, wireVars, registry, batch, initRun,
                    host, envVars, fsVars, flag, watchVars, regVars, netVars,
                    fchan, leadVars, follVars, histVars, lastCall, sel>>

\* create_storage_files: peers.json is written with an empty configuration
\* whether or not it exists; state.json is written with an empty state if
\* it is missing. A write that fails returns the error at once.
CreateStorageFiles ==
  /\ storage.result = "Running"
  /\ \E failed \in {"none", "peers.json", "state.json"} :
       storage' =
         IF failed = "peers.json"
         THEN [storage EXCEPT !.result = "Err"]
         ELSE IF storage.state_file # <<>>
         THEN [storage EXCEPT !.peers_json = <<PeersState(<<>>, <<>>)>>,
                              !.result = "Ok"]
         ELSE IF failed = "state.json"
         THEN [storage EXCEPT !.peers_json = <<PeersState(<<>>, <<>>)>>,
                              !.result = "Err"]
         ELSE [storage EXCEPT !.peers_json = <<PeersState(<<>>, <<>>)>>,
                              !.state_file = <<EmptyMap>>,
                              !.result = "Ok"]
  /\ UNCHANGED nonStorageVars

\* ------------------------------------------------------------ sandbox
\* A path is the sequence of its components from the filesystem root; ".."
\* stays a component until the operating system resolves it.
\* Path::starts_with: base is a prefix of path, component by component.
starts_with(path, base) ==
  /\ Len(base) <= Len(path)
  /\ SubSeq(path, 1, Len(base)) = base

\* The file or directory the operating system reaches for a path: each ".."
\* steps to the parent (the root is its own parent).
RECURSIVE Resolve(_)
Resolve(path) ==
  IF path = <<>> THEN <<>>
  ELSE LET parent == Resolve(SubSeq(path, 1, Len(path) - 1))
           name == path[Len(path)]
       IN IF name # ".." THEN Append(parent, name)
          ELSE IF parent = <<>> THEN <<>>
          ELSE SubSeq(parent, 1, Len(parent) - 1)

\* Path::join: a relative path is appended; an absolute one (first component
\* "/") replaces the base.
join(base, relative_path) ==
  IF relative_path[1] = "/" THEN Tail(relative_path)
  ELSE base \o relative_path

\* The relative paths a caller hands over: a name, a name under the parent
\* of the workspace, an absolute name.
Names == Paths \cup {"d"}
RelativePaths ==
  UNION {{<<name>>, <<"..", name>>, <<"/", name>>} : name \in Names}
FullPaths == {join(Root, relative_path) : relative_path \in RelativePaths}

Ancestors(path) == {SubSeq(path, 1, k) : k \in 0..Len(path)}
Parent(path) == SubSeq(path, 1, Len(path) - 1)

\* The variables a FileSystem call leaves alone.
nonHostVars == <<recVars, storeVars, wireVars, registry, batch, initRun,
                 storage, envVars, fsVars, flag, watchVars, regVars, netVars,
                 fchan, leadVars, follVars, histVars, lastCall, sel>>

\* The machine after a call: the guard refused it, the operating system
\* failed it, or it took effect on the resolved path.
FsReturn(op, path, ok, files, dirs) ==
  IF ~starts_with(path, Root)
  THEN [host EXCEPT !.last = FsCall(op, path, "PermissionDenied"),
                    !.calls = @ + 1]
  ELSE IF ~ok
  THEN [host EXCEPT !.last = FsCall(op, path, "Err"), !.calls = @ + 1]
  ELSE Host(files, dirs, FsCall(op, path, "Ok"), host.calls + 1)

\* FileSystem::read_file
FsReadFile ==
  /\ host.calls < MaxFsCalls
  /\ \E path \in FullPaths :
       host' = FsReturn("read_file", path,
                        Resolve(path) \in DOMAIN host.files,
                        host.files, host.dirs)
  /\ UNCHANGED nonHostVars

\* FileSystem::write_file: tokio::fs::write creates or truncates the file;
\* its directory must exist.
FsWriteFile ==
  /\ host.calls < MaxFsCalls
  /\ \E path \in FullPaths, contents \in Contents :
       LET target == Resolve(path)
       IN host' =
            FsReturn("write_file", path,
                     target \notin host.dirs /\ Parent(target) \in host.dirs,
                     [f \in DOMAIN host.files \cup {target} |->
                        IF f = target THEN contents ELSE host.files[f]],
                     host.dirs)
  /\ UNCHANGED nonHostVars

\* FileSystem::delete_file
FsDeleteFile ==
  /\ host.calls < MaxFsCalls
  /\ \E path \in FullPaths :
       LET target == Resolve(path)
       IN host' =
            FsReturn("delete_file", path, target \in DOMAIN host.files,
                     [f \in DOMAIN host.files \ {target} |-> host.files[f]],
                     host.dirs)
  /\ UNCHANGED nonHostVars

\* FileSystem::create_directory: create_dir_all makes the directory and its
\* missing ancestors, and fails if a file is in the way.
FsCreateDirectory ==
  /\ host.calls < MaxFsCalls
  /\ \E path \in FullPaths :
       LET target == Resolve(path)
       IN host' =
            FsReturn("create_directory", path,
                     Ancestors(target) \cap DOMAIN host.files = {},
                     host.files, host.dirs \cup Ancestors(target))
  /\ UNCHANGED nonHostVars

\* FileSystem::delete_directory: remove_dir_all removes the directory and
\* everything below it.
FsDeleteDirectory ==
  /\ host.calls < MaxFsCalls
  /\ \E path \in FullPaths :
       LET target == Resolve(path)
           kept == {f \in DOMAIN host.files : ~starts_with(f, target)}
       IN host' =
            FsReturn("delete_directory", path, target \in host.dirs,
                     [f \in kept |-> host.files[f]],
                     {d \in host.dirs : ~starts_with(d, target)})
  /\ UNCHANGED nonHostVars

\* ------------------------------------------- follower select loop, bytes
\* The variables the select loop leaves alone.
nonSelVars == <<recVars, storeVars, wireVars, registry, batch, initRun, host,
                storage, envVars, fsVars, flag, watchVars, regVars, netVars,
                fchan, leadVars, follVars, histVars, lastCall>>

\* The next byte of the leader's stream reaches the follower's socket: the
\* length prefix of a new frame, or the next byte of the body of the frame
\* begun (send_message_to_peer: write_u32, write_all).
SelArrive ==
  /\ \E unit \in IF sel.left > 0 THEN {BodyByte(sel.frames)}
                  ELSE IF sel.frames < MaxFrames
                  THEN {LenPrefix(sel.frames + 1, n) : n \in 1..MaxBody}
                  ELSE {} :
       sel' = [sel EXCEPT
                 !.written = Append(@, unit),
                 !.socket = Append(@, unit),
                 !.frames = IF unit.kind = "len" THEN @ + 1 ELSE @,
                 !.left = IF unit.kind = "len" THEN unit.length ELSE @ - 1]
  /\ UNCHANGED nonSelVars

\* The follower's watcher sends a FileUpdatePush on file_change_tx.
SelWatcherSends ==
  /\ sel.pc = "select"
  /\ sel.chan + sel.forwarded < MaxChanges
  /\ sel' = [sel EXCEPT !.chan = @ + 1]
  /\ UNCHANGED nonSelVars

\* What receive_message_from_peer holds after reading from the socket: the
\* length (read_u32) and as much of the body as has arrived (read_exact).
Needed(buffer) == IF buffer = <<>> THEN 1 ELSE 1 + buffer[1].length
Taken(buffer, socket) ==
  IF Needed(buffer) - Len(buffer) < Len(socket)
  THEN Needed(buffer) - Len(buffer) ELSE Len(socket)

\* select! polls the receive branch and bytes are there to read.  The future
\* takes the length prefix, then the body; with the whole body it returns
\* Ok(message) and the arm runs, otherwise it stays pending with the bytes
\* it has read.  Bytes that do not begin with a length prefix decode to an
\* arbitrary length: the future returns Err (the loop breaks) or waits for
\* bytes that never come.
SelPollReceive ==
  /\ sel.pc = "select"
  /\ sel.socket # <<>>
  /\ LET first == IF sel.future # <<>> THEN sel.future[1] ELSE sel.socket[1]
         head == IF sel.future # <<>> THEN sel.future ELSE <<first>>
         rest == IF sel.future # <<>> THEN sel.socket ELSE Tail(sel.socket)
         take == Taken(head, rest)
         read == head \o SubSeq(rest, 1, take)
         unread == SubSeq(rest, take + 1, Len(rest))
     IN IF first.kind # "len"
        THEN \/ sel' = [sel EXCEPT !.future = <<>>,
                                   !.socket = rest,
                                   !.decoded = Append(@, "Err"),
                                   !.pc = "ended"]
             \/ sel' = [sel EXCEPT !.future = head \o rest,
                                   !.socket = <<>>]
        ELSE IF Len(read) < Needed(read)
        THEN sel' = [sel EXCEPT !.future = read, !.socket = unread]
        ELSE sel' = [sel EXCEPT
                       !.future = <<>>,
                       !.socket = unread,
                       !.decoded =
                         Append(@, IF \A i \in 2..Len(read) :
                                        /\ read[i].kind = "byte"
                                        /\ read[i].call = first.call
                                   THEN first.call ELSE "Err")]
  /\ UNCHANGED nonSelVars

\* select! completes the branch file_change_rx.recv(): the message is
\* forwarded to the leader, and the receive future of this iteration is
\* dropped with whatever it had read; the next iteration makes a new one.
SelTakeChange ==
  /\ sel.pc = "select"
  /\ sel.chan > 0
  /\ sel' = [sel EXCEPT !.chan = @ - 1,
                        !.forwarded = @ + 1,
                        !.future = <<>>]
  /\ UNCHANGED nonSelVars

\* ------------------------------------------------- batches with failures
\* The orders in which a HashMap of these keys can be iterated.
Orders(keys) ==
  {order \in [1..Cardinality(keys) -> keys] :
     \A i, j \in DOMAIN order : order[i] = order[j] => i = j}

\* sync_batch_write_files, first loop: the files are written in iteration
\* order; create_directory or write_file failing returns the error with `?`,
\* so the files after the first failure are not written.
WrittenBeforeError(order, denied) ==
  {order[i] : i \in {j \in DOMAIN order :
                       \A k \in 1..j : order[k] \notin denied}}

\* The variables a batch leaves alone.
nonBatchVars == <<recVars, storeVars, wireVars, registry, initRun, host,
                  storage, envVars, events, flag, watchVars, regVars,
                  netVars, fchan, leadVars, follVars, histVars, lastCall, sel>>

\* sync_batch_write_files on the leader's workspace.  The state entries are
\* inserted (batch_operations) only if the first loop returned no error.
SyncBatchWrite(files, order, denied) ==
  LET written == WrittenBeforeError(order, denied)
      d1 == BatchWriteDisk(disk[Leader],
                           [path \in written |-> files[path]])
  IN /\ disk' = [disk EXCEPT ![Leader] = d1]
     /\ st' = [st EXCEPT
                 ![Leader] = IF written = DOMAIN files
                             THEN BatchWriteState(@, files, d1, now)
                             ELSE @]
     /\ batch' = Batch("write", files, {}, denied)
     /\ UNCHANGED nonBatchVars

\* sync_batch_delete_files on the leader's workspace: the result of
\* fs.delete_file is dropped (`let _ =`), and every path of the list gets a
\* tombstone.
SyncBatchDelete(paths) ==
  /\ \E denied \in SUBSET (paths \cap DOMAIN disk[Leader]) :
       /\ disk' = [disk EXCEPT
                     ![Leader] = BatchDeleteDisk(@, paths \ denied)]
       /\ batch' = Batch("delete", EmptyMap, paths, denied)
  /\ st' = [st EXCEPT ![Leader] = BatchDeleteState(@, paths, <<>>, now)]
  /\ UNCHANGED nonBatchVars

\* --------------------------------------------------------- peers registry
\* PeersConfig::add_peer: state.peers.push(peer).
add_peer(state, peer) == [state EXCEPT !.peers = Append(@, peer)]

\* PeersConfig::remove_peer: state.peers.retain(|p| p != peer).
remove_peer(state, peer) ==
  [state EXCEPT !.peers = SelectSeq(@, LAMBDA q : q # peer)]

\* PeersConfig::set_leader: state.leader = Some(leader).
set_leader(state, leader) == [state EXCEPT !.leader = <<leader>>]

\* The variables the registry's operations leave alone.
nonPeersVars == <<recVars, storeVars, wireVars, batch, initRun, host, storage,
                  envVars, fsVars, flag, watchVars, regVars, netVars, fchan,
                  leadVars, follVars, histVars, lastCall, sel>>

PeersAdd(peer) ==
  /\ Len(registry.peers) < MaxPeers
  /\ registry' = add_peer(registry, peer)
  /\ UNCHANGED nonPeersVars

PeersRemove(peer) ==
  /\ registry' = remove_peer(registry, peer)
  /\ UNCHANGED nonPeersVars

PeersSetLeader(leader) ==
  /\ registry' = set_leader(registry, leader)
  /\ UNCHANGED nonPeersVars

\* ---------------------------------------------------------- specifications
NextReconcile == Reconcile

InitReconcile ==
  /\ RecInit
  /\ AuxIdle
  /\ Booted([n \in Nodes |-> EmptyMap], {}, 0, 0)

SpecReconcile == InitReconcile /\ [][NextReconcile]_vars

\* SpecStore: two tasks of one process call the operations of the sync-state
\* store concurrently, MaxCalls calls in all; every write of state.json
\* succeeds.
InitStore ==
  /\ RecIdle
  /\ AuxIdle
  /\ Booted([n \in Nodes |-> EmptyMap], {}, 0, 0)

NextStore ==
  \E t \in Tasks :
    \/ \E kind \in StoreOps \ {"delete_file"}, content \in Contents :
         StoreCall(t, kind, <<content>>)
    \/ StoreCall(t, "delete_file", <<>>)
    \/ StoreCall(t, "batch_operations", <<>>)
    \/ StoreInsert(t)
    \/ StoreReadAutoSave(t)
    \/ StoreSave(t)
    \/ BatchReadAutoSave(t)
    \/ BatchDisable(t)
    \/ BatchOperations(t)
    \/ BatchRestore(t)
    \/ StoreReturn(t)

SpecStore == InitStore /\ [][NextStore]_vars

\* SpecWire: two leader tasks make MaxSends calls of send_to_peer,
\* broadcast_message and broadcast_except in all, with messages of 1 to
\* MaxBody bytes, while followers connect and their sockets may break.
InitWire ==
  /\ RecIdle
  /\ AuxIdle
  /\ Booted([n \in Nodes |-> EmptyMap], {}, 0, 0)

NextWire ==
  \/ \E p \in Followers : WireAddConnection(p) \/ WireBreak(p)
  \/ \E t \in Handlers :
       \/ \E kind \in SendKinds, p \in Followers, length \in 1..MaxBody :
            WireCall(t, kind, IF kind = "broadcast_message" THEN {} ELSE {p},
                     length)
       \/ WireCount(t)
       \/ WireLock(t)
       \/ WireNext(t)
       \/ WireWriteLen(t)
       \/ WireWriteBody(t)
       \/ WireUnlock(t)

SpecWire == InitWire /\ [][NextWire]_vars

\* SpecBoot: initialise_state applied to every bounded persisted state and
\* every bounded workspace.
InitBoot ==
  /\ RecIdle
  /\ HostIdle
  /\ StorageIdle
  /\ SelIdle
  /\ \E saved \in SyncStates, scanned \in ScannedDisks :
       initRun = Boot(saved, scanned, EmptyMap, FALSE)
  /\ Booted([n \in Nodes |-> EmptyMap], {}, 0, 0)

NextBoot == InitialiseState

SpecBoot == InitBoot /\ [][NextBoot]_vars

\* SpecStorage: create_storage_files on every .synclite folder a previous
\* run can have left, each of the two files missing or present.
InitStorage ==
  /\ RecIdle
  /\ BootIdle
  /\ HostIdle
  /\ SelIdle
  /\ \E peers_json \in {<<>>} \cup {<<c>> : c \in StoredPeers},
        state_file \in {<<>>} \cup {<<state>> : state \in SyncStates} :
       storage = Storage(peers_json, state_file, peers_json, state_file,
                         "Running")
  /\ Booted([n \in Nodes |-> EmptyMap], {}, 0, 0)

NextStorage == CreateStorageFiles

SpecStorage == InitStorage /\ [][NextStorage]_vars

\* SpecSelect: a connected follower in its select loop; the leader sends
\* MaxFrames frames and the watcher MaxChanges messages.
InitSelect ==
  /\ RecIdle
  /\ BootIdle
  /\ HostIdle
  /\ StorageIdle
  /\ sel = Select(<<>>, 0, 0, <<>>, <<>>, <<>>, 0, 0, "select")
  /\ Booted([n \in Nodes |-> EmptyMap], {}, 0, 0)

NextSelect ==
  \/ SelArrive
  \/ SelWatcherSends
  \/ SelPollReceive
  \/ SelTakeChange

SpecSelect == InitSelect /\ [][NextSelect]_vars

\* SpecSandbox: MaxFsCalls calls of FileSystem, in any order, on the paths
\* a caller can build from a relative path.
InitSandbox ==
  /\ RecIdle
  /\ AuxIdle
  /\ Booted([n \in Nodes |-> EmptyMap], {}, 0, 0)

NextSandbox ==
  \/ FsReadFile
  \/ FsWriteFile
  \/ FsDeleteFile
  \/ FsCreateDirectory
  \/ FsDeleteDirectory

SpecSandbox == InitSandbox /\ [][NextSandbox]_vars

\* SpecBatch: a node that booted with any bounded workspace applies batches
\* of writes and of deletes; the file system may refuse any of the files.
InitBatch ==
  /\ RecIdle
  /\ AuxIdle
  /\ \E leaderState \in SyncStates :
       Booted([n \in Nodes |-> IF n = Leader THEN leaderState ELSE EmptyMap],
              {}, 0, 0)

NextBatch ==
  \/ \E keys \in SUBSET Paths \ {{}} :
       \E files \in [keys -> Contents], order \in Orders(keys),
          denied \in SUBSET keys :
         SyncBatchWrite(files, order, denied)
  \/ \E paths \in SUBSET Paths \ {{}} : SyncBatchDelete(paths)

SpecBatch == InitBatch /\ [][NextBatch]_vars

\* SpecPeers: any sequence of add_peer, remove_peer and set_leader calls on
\* one PeersConfig, with peer lists of up to MaxPeers ids.
InitPeers ==
  /\ RecIdle
  /\ AuxIdle
  /\ Booted([n \in Nodes |-> EmptyMap], {}, 0, 0)

NextPeers ==
  \E n \in Nodes : PeersAdd(n) \/ PeersRemove(n) \/ PeersSetLeader(n)

SpecPeers == InitPeers /\ [][NextPeers]_vars

Join(p) ==
  \/ FDial(p)
  \/ LAddConnection(p)
  \/ LAcknowledge(p)
  \/ LAddPeer(p)
  \/ LSnapshotPeers(p)
  \/ LBroadcastPeers(p)
  \/ FRecvAck(p)
  \/ FRecvPeerListUpdate(p)
  \/ LRecvInitialSyncPush(p)
  \/ LIspSend(p)

Exchange(p) ==
  \/ LIspWake(p)
  \/ FRecvInitialSyncPushResponse(p)
  \/ FIsprWake(p)

Push(p) ==
  \/ LRecvFileUpdatePush(p)
  \/ LFupWake(p)
  \/ LFupRelay(p)

Receive(p) ==
  \/ FRecvFileUpdatePush(p)
  \/ FFupWake(p)

Leave(p) ==
  \/ FRecvUnexpected(p)
  \/ FRecvAckError(p)
  \/ FSendMalformed(p)
  \/ LRecvMalformed(p)
  \/ FCrash(p)
  \/ LRecvError(p)
  \/ LRemoveConnection(p)
  \/ LRemovePeer(p)
  \/ LTeardownSnapshot(p)
  \/ LTeardownBroadcast(p)

Watch ==
  \/ \E n \in Nodes : WFirstEvent(n)
  \/ WDrainLeader
  \/ \E p \in Followers : WDrainFollower(p) \/ FSendChange(p)

Users ==
  \E n \in Nodes, path \in Paths :
    \/ \E content \in Contents : UserWrite(n, path, content)
    \/ \E content \in Contents : UserReplace(n, path, content)
    \/ UserDelete(n, path)

\* SpecHandshake: a leader and one follower boot with any pair of workspaces
\* and run the initial sync; no user edits, no crash.  The actions left out of
\* NextHandshake are not enabled in any state this specification reaches.
InitHandshake ==
  /\ RecIdle
  /\ AuxIdle
  /\ \E leaderState \in SyncStates, followerState \in SyncStates :
       Booted([n \in Nodes |-> IF n = Leader THEN leaderState
                               ELSE IF n = "F1" THEN followerState
                               ELSE EmptyMap],
              {"F1"}, 0, 0)

NextHandshake ==
  \/ \E p \in Followers : Join(p) \/ Exchange(p) \/ Push(p)
  \/ \E n \in Nodes : WDiscard(n)

SpecHandshake == InitHandshake /\ [][NextHandshake]_vars

\* SpecJoin: a leader that holds an old file and two followers, each booting
\* with nothing, with a newer version of the file or with a newer tombstone
\* for it; followers join, sync, and may crash.  No user edits: the actions
\* left out of NextJoin are not enabled in any state this specification
\* reaches.
JoinLeaderBoot == [path \in {"a"} |-> LiveEntry(1, 1)]
JoinFollowerBoots ==
  {EmptyMap,
   [path \in {"a"} |-> LiveEntry(2, MaxInitTs)],
   [path \in {"a"} |-> Tombstone(MaxInitTs)]}

InitJoin ==
  /\ RecIdle
  /\ AuxIdle
  /\ \E boot \in [Followers -> JoinFollowerBoots] :
       Booted([n \in Nodes |-> IF n = Leader THEN JoinLeaderBoot ELSE boot[n]],
              Followers, 0, MaxCrashes)

NextJoin ==
  \/ \E p \in Followers :
       Join(p) \/ Exchange(p) \/ Push(p) \/ Receive(p) \/ Leave(p)
  \/ \E n \in Nodes : WDiscard(n)

SpecJoin == InitJoin /\ [][NextJoin]_vars

\* Spec: a leader and one follower boot with empty workspaces; users edit
\* both workspaces and the follower may crash.  With empty workspaces the
\* initial sync exchanges nothing: the actions of Exchange are not enabled in
\* any state this specification reaches.
Init ==
  /\ RecIdle
  /\ AuxIdle
  /\ Booted([n \in Nodes |-> EmptyMap], {"F1"}, MaxEdits, MaxCrashes)

Next ==
  \/ \E p \in Followers : Join(p) \/ Push(p) \/ Receive(p) \/ Leave(p)
  \/ \E n \in Nodes : WDiscard(n)
  \/ Watch
  \/ Users

Spec == Init /\ [][Next]_vars

\* SpecEdits: a leader and two followers boot with empty workspaces and join;
\* once every handshake is over, users create files: the followers' users
\* the file "a", each in a workspace that does not have it yet (so two such
\* edits are concurrent: neither follower has seen the other's file), the
\* leader's user the file "b".  Nobody disconnects.  With empty workspaces
\* the initial sync exchanges nothing: the actions of Exchange are not
\* enabled in any state this specification reaches.
AllJoined ==
  \A p \in members :
    /\ Settled(p)
    /\ lpc[p] \notin {"none", "accepted", "registered", "acked", "added",
                      "bcast"}

FollowerCreates(p, content) ==
  /\ AllJoined
  /\ "a" \notin DOMAIN disk[p]
  /\ UserWrite(p, "a", content)

LeaderCreates(content) ==
  /\ AllJoined
  /\ "b" \notin DOMAIN disk[Leader]
  /\ UserWrite(Leader, "b", content)

InitEdits ==
  /\ RecIdle
  /\ AuxIdle
  /\ Booted([n \in Nodes |-> EmptyMap], Followers, MaxEdits, 0)

NextEdits ==
  \/ \E p \in Followers : Join(p) \/ Push(p) \/ Receive(p)
  \/ \E n \in Nodes : WDiscard(n)
  \/ Watch
  \/ \E p \in Followers, content \in Contents : FollowerCreates(p, content)
  \/ \E content \in Contents : LeaderCreates(content)

SpecEdits == InitEdits /\ [][NextEdits]_vars

\* ------------------------------------------------------------------ claims
Range(seq) == {seq[i] : i \in DOMAIN seq}

\* The spec's names for the four output lists, A being the leader's side.
Asend == recOut.server_winning_files
Bsend == recOut.peer_winning_files
Adel == recOut.files_to_delete_from_server
Bdel == recOut.files_to_delete_from_peer

OnBothSides(path) == path \in DOMAIN recServer /\ path \in DOMAIN recPeer

\* The workspace d shows an edit that left content (<<>>: a deletion).
Reflects(d, path, content) ==
  IF content = <<>> THEN path \notin DOMAIN d
  ELSE path \in DOMAIN d /\ d[path] = content[1]

\* Nothing is in flight and nothing is pending anywhere; every started
\* follower is connected, past its handshake and in its select loop.
Quiescent ==
  /\ \A n \in Nodes : events[n] = <<>> /\ wpc[n] # "sleeping" /\ ~flag[n]
  /\ \A p \in Followers : toF[p] = <<>> /\ toL[p] = <<>> /\ fchan[p] = <<>>
  /\ \A p \in members :
       lpc[p] = "recv" /\ fpc[p] = "loop" /\ p \in conns /\ hs[p] = "done"

\* C1: a path that a user edited exactly once, on a connected node after every
\* handshake and with no connection failing, shows that edit in the workspace
\* of every connected node once the system has come to rest (same content for
\* a write, file absent for a delete).
C1_EditReachesEveryNode ==
  Quiescent =>
    \A path \in Paths :
      lastEdit[path].count = 1 /\ lastEdit[path].settled =>
        \A n \in {Leader} \cup members :
          Reflects(disk[n], path, lastEdit[path].content)

\* The path is live in the leader's state and the follower has no entry for it
\* when the leader reconciles the follower's InitialSyncPush.
ColdStart(p, path) ==
  /\ path \in DOMAIN hsIn[p].server
  /\ ~hsIn[p].server[path].is_deleted
  /\ path \notin DOMAIN hsIn[p].peer

\* C2: cold start: if the leader holds a live entry for a path the connecting
\* follower has no entry for, then once the handshake is complete the
\* follower's disk has the file with the leader's content and the follower's
\* state has a live entry for it with the hash of that content.
C2_ColdStartPropagates ==
  \A p \in Followers, path \in Paths :
    hs[p] = "done" /\ ColdStart(p, path) =>
      /\ path \in DOMAIN disk[p]
      /\ calculate_file_hash(disk[p][path]) = hsIn[p].server[path].hash
      /\ path \in DOMAIN st[p]
      /\ ~st[p][path].is_deleted
      /\ st[p][path].hash = hsIn[p].server[path].hash

\* Both sides hold a live entry for the path, with different hashes, and the
\* follower's is strictly newer.
FollowerWins(p, path) ==
  /\ path \in DOMAIN hsIn[p].server
  /\ path \in DOMAIN hsIn[p].peer
  /\ ~hsIn[p].server[path].is_deleted
  /\ ~hsIn[p].peer[path].is_deleted
  /\ hsIn[p].server[path].hash # hsIn[p].peer[path].hash
  /\ hsIn[p].peer[path].last_modified > hsIn[p].server[path].last_modified

\* C3: conflicting edit, follower wins: once the handshake (InitialSyncPush,
\* InitialSyncPushResponse, follow-up FileUpdatePush) is complete the leader's
\* disk holds the follower's content, the follower's disk still holds it, and
\* both sync states have a live entry for the path with the same hash.
C3_FollowerWinsConflict ==
  \A p \in Followers, path \in Paths :
    hs[p] = "done" /\ FollowerWins(p, path) =>
      /\ path \in DOMAIN disk[Leader]
      /\ calculate_file_hash(disk[Leader][path]) = hsIn[p].peer[path].hash
      /\ path \in DOMAIN disk[p]
      /\ calculate_file_hash(disk[p][path]) = hsIn[p].peer[path].hash
      /\ path \in DOMAIN st[Leader] /\ path \in DOMAIN st[p]
      /\ ~st[Leader][path].is_deleted /\ ~st[p][path].is_deleted
      /\ st[Leader][path].hash = st[p][path].hash
      /\ st[p][path] = hsIn[p].peer[path]

C3_Witness ==
  \E path \in Paths :
    /\ hs["F1"] = "done"
    /\ FollowerWins("F1", path)
    /\ disk[Leader][path] = disk["F1"][path]

\* The follower's entry is a tombstone strictly newer than the leader's live
\* entry.
FollowerDeleted(p, path) ==
  /\ path \in DOMAIN hsIn[p].server
  /\ path \in DOMAIN hsIn[p].peer
  /\ ~hsIn[p].server[path].is_deleted
  /\ hsIn[p].peer[path].is_deleted
  /\ hsIn[p].peer[path].last_modified > hsIn[p].server[path].last_modified

C5_RelaySkipsSender ==
  [][\A p \in Followers :
       /\ (lpc[p] = "recv" /\ lpc'[p] = "fup_sleep") =>
            /\ toF' = toF
            /\ lloc'[p].msg = Head(toL[p])
            /\ \A path \in DOMAIN Head(toL[p]).files_to_write :
                 /\ path \in DOMAIN disk'[Leader]
                 /\ disk'[Leader][path] = Head(toL[p]).files_to_write[path]
       /\ (lpc[p] = "fup_relay" /\ lpc'[p] = "recv") =>
            /\ toF'[p] = toF[p]
            /\ \A q \in conns \ {p} :
                 Alive(q) =>
                   toF'[q] = Append(toF[q], FileUpdatePush(
                                      lloc[p].msg.files_to_write,
                                      lloc[p].msg.files_to_delete))]_vars

\* A follower holds a relayed update while another follower is connected.
C5_Witness ==
  \E p \in Followers : \E q \in Followers \ {p} :
    /\ p \in conns /\ q \in conns
    /\ lpc[p] = "recv" /\ hs[p] = "done"
    /\ toF[p] = <<>>
    /\ \E i \in DOMAIN toF[q] :
         /\ toF[q][i].type = "FileUpdatePush"
         /\ DOMAIN toF[q][i].files_to_write # {}

\* C6: disconnect cleanup: after the reader error for follower p the leader
\* first removes p's connection, then removes p from the peer list, then
\* broadcasts to every remaining running follower a PeerListUpdate that does
\* not list p; from then on p is in neither the connection manager nor the
\* peer list.
C6_DisconnectCleanup ==
  [][\A p \in Followers :
       /\ (lpc[p] = "td_connection" /\ lpc'[p] # lpc[p]) =>
            lpc'[p] = "td_peer" /\ p \notin conns' /\ peers' = peers
       /\ (lpc[p] = "td_peer" /\ lpc'[p] # lpc[p]) =>
            /\ lpc'[p] = "td_snapshot"
            /\ p \notin conns /\ p \notin Range(peers') /\ toF' = toF
       /\ (lpc[p] = "td_bcast" /\ lpc'[p] # lpc[p]) =>
            /\ lpc'[p] = "closed"
            /\ p \notin Range(lloc[p].snap)
            /\ \A q \in conns :
                 Alive(q) =>
                   toF'[q] = Append(toF[q], PeerListUpdate(lloc[p].snap))
       /\ lpc'[p] = "closed" =>
            p \notin conns' /\ p \notin Range(peers')]_vars

\* A follower's teardown is over and the other, still connected, has the
\* PeerListUpdate without it as the last frame of its stream.
C6_Witness ==
  \E p \in Followers : \E q \in Followers \ {p} :
    /\ lpc[p] = "closed"
    /\ q \in conns /\ Alive(q)
    /\ toF[q] # <<>>
    /\ toF[q][Len(toF[q])] = PeerListUpdate(<<q>>)

\* C7: echo suppression: a FileUpdatePush that a node's watcher emits while
\* the suppression flag is set (within the grace period of a programmatic
\* write or delete) names no path of an event the node's own handler caused.
C7_NoEcho ==
  [][\A n \in Nodes :
       (wpc[n] = "sleeping" /\ wpc'[n] = "idle" /\ flag[n]) =>
         LET burst == wfirst[n] \o events[n]
             update == WatcherUpdate(disk[n], burst)
         IN \A i \in DOMAIN burst :
              burst[i].programmatic =>
                /\ burst[i].path \notin DOMAIN update.files_to_write
                /\ burst[i].path \notin update.files_to_delete]_vars

\* C8: reconciler, path on one side only: a path present in A and absent from
\* B is in Asend if A's entry is live and in Bdel if it is a tombstone; a path
\* present only in B is in Bsend if live and in Adel if a tombstone.
C8_OneSideOnly ==
  recDone =>
    \A path \in Paths :
      /\ (path \in DOMAIN recServer /\ path \notin DOMAIN recPeer) =>
           IF recServer[path].is_deleted THEN path \in Bdel
           ELSE path \in Asend
      /\ (path \in DOMAIN recPeer /\ path \notin DOMAIN recServer) =>
           IF recPeer[path].is_deleted THEN path \in Adel
           ELSE path \in Bsend

\* C9: reconciler, conflict with a live winner: for a path present on both
\* sides with different hashes, if the side with the strictly greater
\* last_modified holds a live entry, the path is in that side's send list and
\* in no other output list.
C9_LiveWinner ==
  recDone =>
    \A path \in Paths :
      (OnBothSides(path) /\ recServer[path].hash # recPeer[path].hash) =>
        /\ (/\ recServer[path].last_modified > recPeer[path].last_modified
            /\ ~recServer[path].is_deleted) =>
             /\ path \in Asend
             /\ path \notin Bsend \cup Adel \cup Bdel
        /\ (/\ recPeer[path].last_modified > recServer[path].last_modified
            /\ ~recPeer[path].is_deleted) =>
             /\ path \in Bsend
             /\ path \notin Asend \cup Adel \cup Bdel

\* One run of the reconciler in which the leader's live entry wins one path
\* and the follower's live entry wins another.
C9_Witness ==
  /\ recDone
  /\ \E p1 \in Paths, p2 \in Paths :
       /\ OnBothSides(p1) /\ OnBothSides(p2)
       /\ recServer[p1].hash # recPeer[p1].hash
       /\ recServer[p2].hash # recPeer[p2].hash
       /\ ~recServer[p1].is_deleted /\ ~recPeer[p2].is_deleted
       /\ recServer[p1].last_modified > recPeer[p1].last_modified
       /\ recPeer[p2].last_modified > recServer[p2].last_modified
       /\ p1 \in Asend /\ p2 \in Bsend

\* C10: reconciler, conflict with a tombstone winner: for a path present on
\* both sides where side X holds a tombstone strictly newer than side Y's
\* live entry, the path is in Y's delete list and not in X's delete list, for
\* X the leader as well as X the follower.
C10_TombstoneWinner ==
  recDone =>
    \A path \in Paths :
      OnBothSides(path) =>
        /\ (/\ recServer[path].is_deleted /\ ~recPeer[path].is_deleted
            /\ recServer[path].last_modified > recPeer[path].last_modified) =>
             path \in Bdel /\ path \notin Adel
        /\ (/\ recPeer[path].is_deleted /\ ~recServer[path].is_deleted
            /\ recPeer[path].last_modified > recServer[path].last_modified) =>
             path \in Adel /\ path \notin Bdel

\* C11: reconciler ties are a no-op: a path present on both sides with
\* different hashes and equal last_modified is in none of the four output
\* lists.
C11_TieIsNoOp ==
  recDone =>
    \A path \in Paths :
      (/\ OnBothSides(path)
       /\ recServer[path].hash # recPeer[path].hash
       /\ recServer[path].last_modified = recPeer[path].last_modified) =>
        path \notin Asend \cup Bsend \cup Adel \cup Bdel

\* One run of the reconciler with a tie between a live entry and a tombstone
\* and a tie between two live entries.
C11_Witness ==
  /\ recDone
  /\ \E p1 \in Paths, p2 \in Paths :
       /\ OnBothSides(p1) /\ OnBothSides(p2)
       /\ recServer[p1].is_deleted /\ ~recPeer[p1].is_deleted
       /\ ~recServer[p2].is_deleted /\ ~recPeer[p2].is_deleted
       /\ recServer[p2].hash # recPeer[p2].hash
       /\ recServer[p1].last_modified = recPeer[p1].last_modified
       /\ recServer[p2].last_modified = recPeer[p2].last_modified
       /\ recOut = NoWinners

\* The four output lists exchanged pairwise.
swap(out) ==
  [server_winning_files |-> out.peer_winning_files,
   peer_winning_files |-> out.server_winning_files,
   files_to_delete_from_server |-> out.files_to_delete_from_peer,
   files_to_delete_from_peer |-> out.files_to_delete_from_server]

\* C12: reconciler symmetry: reconcile(A, B) equals reconcile(B, A) with
\* Asend and Bsend exchanged and Adel and Bdel exchanged, the lists compared
\* as sets of paths.
C12_Symmetry ==
  recDone => recOut = swap(determine_winning_files(recPeer, recServer))

\* Every pair of entries is equivalent: both tombstones with equal
\* timestamps, or both live with equal hashes.
Equivalent(A, B) ==
  /\ DOMAIN A = DOMAIN B
  /\ \A path \in DOMAIN A :
       \/ /\ A[path].is_deleted /\ B[path].is_deleted
          /\ A[path].last_modified = B[path].last_modified
       \/ /\ ~A[path].is_deleted /\ ~B[path].is_deleted
          /\ A[path].hash = B[path].hash

\* C13: reconciler fixpoint: if A and B have the same paths and every pair of
\* entries is equivalent, all four output lists are empty.
C13_Fixpoint ==
  (recDone /\ Equivalent(recServer, recPeer)) => recOut = NoWinners

\* Equivalent states that are not equal: a tombstone on both sides and a live
\* file with the same hash and different timestamps.
C13_Witness ==
  /\ recDone
  /\ Equivalent(recServer, recPeer)
  /\ recOut = NoWinners
  /\ \E p1 \in Paths, p2 \in Paths :
       /\ p1 \in DOMAIN recServer /\ p2 \in DOMAIN recServer
       /\ recServer[p1].is_deleted
       /\ ~recServer[p2].is_deleted
       /\ recServer[p2].last_modified # recPeer[p2].last_modified

\* A step in which a call of broadcast_message or broadcast_except returns.
BroadcastReturns ==
  \/ \E p \in Followers : lpc[p] = "bcast" /\ lpc'[p] = "recv"
  \/ \E p \in Followers : lpc[p] = "fup_relay" /\ lpc'[p] = "recv"
  \/ \E p \in Followers : lpc[p] = "td_bcast" /\ lpc'[p] = "closed"
  \/ wpc[Leader] = "sleeping" /\ wpc'[Leader] = "idle"

\* C14: connection-manager eviction: when broadcast_message or
\* broadcast_except returns the failed set F, the number of connections is
\* the number there was when the call took the lock less |F|, no member of F
\* is connected, and every peer whose write succeeded is still connected.
C14_BroadcastEvictsFailed ==
  [][BroadcastReturns =>
       LET F == lastCall'.failed_peers
       IN /\ lastCall'.op = "broadcast"
          /\ F \subseteq lastCall'.peer_ids
          /\ Cardinality(conns') = Cardinality(conns) - Cardinality(F)
          /\ F \cap conns' = {}
          /\ (lastCall'.peer_ids \ F) \subseteq conns']_vars

\* A broadcast has just returned with one failed write and one that
\* succeeded.
C14_Witness ==
  /\ lastCall.op = "broadcast"
  /\ lastCall.failed_peers # {}
  /\ lastCall.peer_ids \ lastCall.failed_peers # {}
  /\ lastCall.failed_peers \cap conns = {}
  /\ (lastCall.peer_ids \ lastCall.failed_peers) \subseteq conns

\* C19: connection record lifetime: after a single-peer send to P has failed
\* with a write error, P is not in the connection manager.
C19_FailedSendEvicts ==
  lastCall.op = "send_to_peer" => lastCall.failed_peers \cap conns = {}


\* C16: a follower never sends a FileUpdatePush before it has received the
\* InitialSyncPushResponse for its own InitialSyncPush.  As a property of
\* steps: while a follower that has sent its InitialSyncPush has not yet
\* received the response, no step puts a FileUpdatePush on its stream to the
\* leader.
AwaitsResponse(p) == fpc[p] = "loop" /\ hs[p] \in {"pushed", "response"}

SendsFileUpdatePush(p) ==
  /\ Len(toL'[p]) = Len(toL[p]) + 1
  /\ toL'[p][Len(toL'[p])].type = "FileUpdatePush"

C16_NoPushBeforeResponse ==
  [][\A p \in Followers : AwaitsResponse(p) => ~SendsFileUpdatePush(p)]_vars

\* C17: a follower's first read either yields ConnectionAck, and then the
\* follower records the leader id, sends InitialSyncPush and starts its
\* watcher; or it yields anything else or fails, and then the follower
\* terminates having sent nothing, started no watcher and left its sync state
\* and leader id as they were.
Acknowledged(p) ==
  /\ toF[p] # <<>>
  /\ Head(toF[p]).type = "ConnectionAck"
  /\ fpc'[p] = "loop"

C17_FirstFrame ==
  [][\A p \in Followers :
       (fpc[p] = "wait_ack" /\ fpc'[p] # "wait_ack") =>
         IF Acknowledged(p)
         THEN /\ fleader'[p] = <<Head(toF[p]).leader_id>>
              /\ toL'[p] = Append(toL[p], InitialSyncPush(st[p]))
              /\ wpc'[p] = "idle"
         ELSE /\ fpc'[p] \in {"exited", "dead"}
              /\ toL'[p] = toL[p]
              /\ wpc'[p] = "off"
              /\ st'[p] = st[p]
              /\ disk'[p] = disk[p]
              /\ fleader'[p] = fleader[p]]_vars

\* A follower has exited on its first read: it never recorded a leader, never
\* sent a frame, its watcher never ran and its sync state is as it booted,
\* while the leader had accepted its connection.
C17_Witness ==
  \E p \in Followers :
    /\ fpc[p] = "exited"
    /\ lpc[p] # "none"
    /\ hs[p] = "none"
    /\ fleader[p] = <<>>
    /\ toL[p] = <<>>
    /\ wpc[p] = "off"
    /\ st[p] # EmptyMap

\* C20: when the follower's watcher decides on a drained burst that names one
\* path, holds a Create and a Remove for it, and the file exists, it puts
\* exactly one FileUpdatePush on its channel, with that path alone in
\* files_to_write and files_to_delete empty.
AtomicSave(p, path) ==
  LET burst == wfirst[p] \o events[p]
      kinds == {burst[i].kind : i \in DOMAIN burst}
  IN /\ Grouped(burst) = {path}
     /\ {"Create", "Remove"} \subseteq kinds
     /\ path \in DOMAIN disk[p]

C20_AtomicSaveCollapses ==
  [][\A p \in Followers, path \in Paths :
       (wpc[p] = "sleeping" /\ wpc'[p] = "idle" /\ AtomicSave(p, path)) =>
         /\ fchan'[p] = Append(fchan[p],
                               FileUpdatePush([q \in {path} |-> disk[p][path]],
                                              {}))
         /\ toL'[p] = toL[p]]_vars

\* The follower's watcher has just handled an atomic save of a file whose
\* first version the leader already holds: one FileUpdatePush carrying the
\* new content waits in the channel and the sync state holds its hash.
C20_Witness ==
  \E p \in Followers, path \in Paths :
    /\ wpc[p] = "idle"
    /\ hs[p] = "done"
    /\ lastEdit[path].count = 2
    /\ path \in DOMAIN disk[p]
    /\ path \in DOMAIN disk[Leader]
    /\ disk[Leader][path] # disk[p][path]
    /\ fchan[p] = <<FileUpdatePush([q \in {path} |-> disk[p][path]], {})>>
    /\ toL[p] = <<>>
    /\ path \in DOMAIN st[p]
    /\ st[p][path].hash = calculate_file_hash(disk[p][path])


\* C15: whenever add_file, update_file, delete_file or batch_operations has
\* returned success, state.json holds a map that contains the entry the call
\* inserted.
C15_DurableOnReturn ==
  \A t \in Tasks :
    spc[t] = "returned" =>
      /\ TaskPath(t) \in DOMAIN state_json
      /\ state_json[TaskPath(t)] = inserted[t][1]


\* C18: under every interleaving of concurrent send_to_peer,
\* broadcast_message and broadcast_except calls, what has been written to a
\* peer's writer is a sequence of whole frames, each a length prefix followed
\* by exactly that many body bytes of the same task; a frame is incomplete
\* only at the end of the stream, and only while the holder of the lock is
\* writing it or after the socket has broken.
RECURSIVE Framing(_)
Framing(w) ==
  IF w = <<>> THEN "whole"
  ELSE IF w[1].kind # "len" THEN "interleaved"
  ELSE LET have == IF Len(w) - 1 < w[1].length THEN Len(w) - 1
                   ELSE w[1].length
       IN IF \E i \in 2..(have + 1) :
               w[i].kind # "byte" \/ w[i].call # w[1].call
          THEN "interleaved"
          ELSE IF have < w[1].length THEN "partial"
          ELSE Framing(SubSeq(w, have + 2, Len(w)))

Writing(t, p) ==
  /\ wlock = <<t>>
  /\ wt[t].pc = "body"
  /\ wt[t].cur = <<p>>

C18_WholeFrames ==
  \A p \in Followers :
    \/ Framing(wire[p]) = "whole"
    \/ /\ Framing(wire[p]) = "partial"
       /\ p \in broken \/ \E t \in Handlers : Writing(t, p)

\* One task, broadcasting, has written a whole frame to one peer and is in
\* the middle of the body of the same frame for another, while the other
\* task, in a call that goes to that peer too, waits for the lock.
C18_Witness ==
  \E p \in Followers, t \in Handlers, u \in Handlers :
    /\ t # u
    /\ p \notin broken
    /\ Writing(t, p)
    /\ wt[t].length = MaxBody
    /\ wt[t].sent = 1
    /\ wt[u].pc = "lock"
    /\ p \in Targets(wt[u])
    /\ \E q \in Followers \ {p} :
         /\ Len(wire[q]) = MaxBody + 1
         /\ Framing(wire[q]) = "whole"


\* C29: whenever the reconciliation of the leader's state with a follower's
\* InitialSyncPush yields paths the follower must delete, then once the
\* handshake is over every such path is absent from the follower's disk and
\* tombstoned in the follower's state.
HandshakeBdel(p) ==
  determine_winning_files(hsIn[p].server,
                          hsIn[p].peer).files_to_delete_from_peer

C29_LeaderTombstonesReachFollower ==
  \A p \in Followers :
    hs[p] = "done" =>
      \A path \in HandshakeBdel(p) :
        /\ path \notin DOMAIN disk[p]
        /\ path \in DOMAIN st[p]
        /\ st[p][path].is_deleted


\* C30: on every accepted connection the first frame written to the new
\* peer's writer is ConnectionAck: while a follower still waits for its first
\* frame, the oldest frame on its stream, if any, is ConnectionAck.
C30_AckIsFirstFrame ==
  \A p \in Followers :
    (fpc[p] = "wait_ack" /\ toF[p] # <<>>) =>
      Head(toF[p]).type = "ConnectionAck"


\* C26: when the frame the leader's reader for a peer gets next cannot be
\* decoded, the step that reads it applies nothing (workspace, sync state and
\* every peer's stream stay as they are) and takes the handler out of its
\* receive loop into the teardown; the handler never reads again, and the
\* teardown's remove_connection removes this peer's connection and no other.
Teardown == {"td_connection", "td_peer", "td_snapshot", "td_bcast", "closed"}

ReadsMalformed(p) ==
  /\ lpc[p] = "recv"
  /\ toL[p] # <<>>
  /\ Head(toL[p]) = Malformed
  /\ toL'[p] = Tail(toL[p])

C23_NoDuplicatePeers ==
  \A i \in DOMAIN registry.peers, j \in DOMAIN registry.peers :
    registry.peers[i] = registry.peers[j] => i = j


\* C24: a failure on one file of a batch makes only that file be skipped:
\* after a batch of writes every file the file system did not refuse is on
\* disk with the batch's content and live in the sync state with its hash;
\* after a batch of deletes every file it did not refuse is gone from disk
\* and tombstoned.
C24_BatchSkipsOnlyFailedFile ==
  /\ batch.op = "write" =>
       \A path \in (DOMAIN batch.files) \ batch.denied :
         /\ path \in DOMAIN disk[Leader]
         /\ disk[Leader][path] = batch.files[path]
         /\ path \in DOMAIN st[Leader]
         /\ st[Leader][path].hash = calculate_file_hash(batch.files[path])
         /\ ~st[Leader][path].is_deleted
  /\ batch.op = "delete" =>
       \A path \in batch.paths \ batch.denied :
         /\ path \notin DOMAIN disk[Leader]
         /\ path \in DOMAIN st[Leader]
         /\ st[Leader][path].is_deleted


\* C22: in every reachable state of the sync-state store, in memory and in
\* state.json, every entry is deleted if and only if it has no hash.
WellFormed(state) ==
  \A path \in DOMAIN state :
    state[path].is_deleted <=> state[path].hash = NoHash

C22_EntriesWellFormed == WellFormed(sync_state) /\ WellFormed(state_json)

\* MaxCalls operations have run; the store, and state.json with it, holds a
\* live entry for one path and a tombstone for the other, the later of the
\* two written over an earlier entry.
C22_Witness ==
  /\ sclock = MaxCalls
  /\ state_json = sync_state
  /\ \E path \in DOMAIN sync_state, other \in DOMAIN sync_state :
       /\ sync_state[path].is_deleted
       /\ ~sync_state[other].is_deleted
       /\ sync_state[other].hash \in Hashes

\* C27: delete_file on a path that already holds a tombstone leaves the store
\* as it was.
DeletesAgain(t) ==
  /\ spc[t] = "insert"
  /\ spc'[t] = "flag"
  /\ sop[t].kind = "delete_file"
  /\ TaskPath(t) \in DOMAIN sync_state
  /\ sync_state[TaskPath(t)].is_deleted

C27_DeleteIdempotent ==
  [][\A t \in Tasks : DeletesAgain(t) => sync_state' = sync_state]_vars


\* C21: after initialise_state, a file is on disk if and only if the written
\* state has a live entry for its path with the hash of the file's content,
\* and every other entry is a tombstone.
C21_BootStateDescribesDisk ==
  initRun.done =>
    \A path \in Paths :
      /\ path \in DOMAIN initRun.scanned =>
           /\ path \in DOMAIN initRun.merged
           /\ ~initRun.merged[path].is_deleted
           /\ initRun.merged[path].hash
                = calculate_file_hash(initRun.scanned[path].content)
      /\ path \in (DOMAIN initRun.merged) \ (DOMAIN initRun.scanned) =>
           initRun.merged[path].is_deleted


\* C25: a FileSystem call whose resolved target is not under the workspace
\* root returns the permission error and changes no file and no directory.
C25_SandboxGuardsResolvedPath ==
  [][host'.calls # host.calls
       /\ ~starts_with(Resolve(host'.last.path), Root)
     => /\ host'.last.result = "PermissionDenied"
        /\ host'.files = host.files
        /\ host'.dirs = host.dirs]_vars


\* C28: once create_storage_files has returned Ok, a file that existed has
\* the contents it had, and a file that was missing holds the empty
\* PeersState or the empty SyncState.
C28_BootstrapKeepsExistingFiles ==
  storage.result = "Ok" =>
    /\ storage.peers_json =
         IF storage.peers_before # <<>> THEN storage.peers_before
         ELSE <<PeersState(<<>>, <<>>)>>
    /\ storage.state_file =
         IF storage.state_before # <<>> THEN storage.state_before
         ELSE <<EmptyMap>>


\* C40: after initialise_state, a persisted path that the scan did not find
\* holds a tombstone with the persisted last_modified, and a path whose
\* persisted and scanned hashes are equal holds the persisted entry.
C40_BootTombstoneKeepsTimestamp ==
  initRun.done =>
    \A path \in DOMAIN initRun.saved :
      /\ path \notin DOMAIN initRun.scanned =>
           initRun.merged[path]
             = FileEntry(NoHash, TRUE, initRun.saved[path].last_modified)
      /\ (/\ path \in DOMAIN initRun.scanned
          /\ initRun.saved[path].hash
               = calculate_file_hash(initRun.scanned[path].content)) =>
           initRun.merged[path] = initRun.saved[path]

\* initialise_state has run on a state.json with a live entry for a file that
\* is gone and an entry for a file that is on disk with the same content but
\* a later modification time.
C40_Witness ==
  /\ initRun.done
  /\ \E path \in DOMAIN initRun.saved, same \in DOMAIN initRun.saved :
       /\ path \notin DOMAIN initRun.scanned
       /\ ~initRun.saved[path].is_deleted
       /\ initRun.merged[path].is_deleted
       /\ same \in DOMAIN initRun.scanned
       /\ initRun.saved[same].hash
            = calculate_file_hash(initRun.scanned[same].content)
       /\ initRun.scanned[same].mtime > initRun.saved[same].last_modified


\* C34: whenever no task is inside batch_operations, the auto_save flag of
\* the store, created with auto-save enabled, is true.
C34_AutoSaveRestored ==
  (\A t \in Tasks : sop[t].kind # "batch_operations") => auto_save


\* C31: while a task of a process is in the grace period after a
\* programmatic write or delete of workspace files, the process's
\* ignore_file_events flag is set.
Mutates(message) ==
  DOMAIN message.files_to_write # {} \/ message.files_to_delete # {}

LeaderInGrace(p) ==
  \/ lpc[p] = "isp_sleep"
  \/ lpc[p] = "fup_sleep" /\ Mutates(lloc[p].msg)

C31_FlagCoversMutations ==
  \A p \in Followers : LeaderInGrace(p) => flag[Leader]


\* C32: once every join and every disconnect has finished (each handler is
\* reading or has ended, none for a follower that is gone is still open, and
\* no PeerListUpdate is in flight), every connected follower holds the
\* leader's peer list.
JoinsAndLeavesFinished ==
  \A p \in Followers :
    /\ lpc[p] \in {"none", "recv", "closed"}
    /\ ~Alive(p) => lpc[p] # "recv"
    /\ Alive(p) =>
         /\ fpc[p] # "wait_ack"
         /\ \A i \in DOMAIN toF[p] : toF[p][i].type # "PeerListUpdate"

C32_PeerListsConverge ==
  JoinsAndLeavesFinished =>
    \A p \in conns : Alive(p) => fpeers[p] = peers


\* C33: the follower decodes the leader's frames whole, once each and in
\* send order, and no byte it has read is discarded: the results so far are
\* Ok for frames 1, 2, ..., and the bytes those frames took, then the bytes
\* held by the pending read, then the unread bytes are the leader's stream.
Consumed == Len(sel.written) - Len(sel.future) - Len(sel.socket)

C33_FollowerDecodesEveryFrame ==
  /\ sel.decoded = [i \in 1..Len(sel.decoded) |-> i]
  /\ Consumed >= 0
  /\ sel.future \o sel.socket
       = SubSeq(sel.written, Consumed + 1, Len(sel.written))
  /\ Cardinality({i \in 1..Consumed : sel.written[i].kind = "len"})
       = Len(sel.decoded)


\* C37: when a watcher handles a drained burst, every path is treated as
\* the table says for (exists-now, saw-create, saw-remove, saw-modify): a
\* path to write is in files_to_write with the file's content and gets a
\* live entry with the content's hash, a path to delete is in
\* files_to_delete and gets a tombstone, any other path is in neither list
\* and keeps its entry.
Table(exists, create, remove, modify) ==
  CASE exists /\ create /\ remove -> "write"
    [] exists /\ create /\ ~remove -> "write"
    [] exists /\ ~create /\ modify -> "write"
    [] ~exists /\ remove -> "delete"
    [] OTHER -> "none"

Tabled(n, path) ==
  LET burst == wfirst[n] \o events[n]
      kinds == {burst[i].kind : i \in {j \in DOMAIN burst :
                                         burst[j].path = path}}
  IN Table(path \in DOMAIN disk[n], "Create" \in kinds, "Remove" \in kinds,
           "Modify" \in kinds)

FollowsTable(n, message) ==
  \A path \in Paths :
    /\ path \in DOMAIN message.files_to_write <=> Tabled(n, path) = "write"
    /\ path \in message.files_to_delete <=> Tabled(n, path) = "delete"
    /\ Tabled(n, path) = "write" =>
         /\ message.files_to_write[path] = disk[n][path]
         /\ path \in DOMAIN st'[n]
         /\ ~st'[n][path].is_deleted
         /\ st'[n][path].hash = calculate_file_hash(disk[n][path])
    /\ Tabled(n, path) = "delete" =>
         /\ path \in DOMAIN st'[n]
         /\ st'[n][path].is_deleted
         /\ st'[n][path].hash = NoHash
    /\ Tabled(n, path) = "none" =>
         IF path \in DOMAIN st[n]
         THEN path \in DOMAIN st'[n] /\ st'[n][path] = st[n][path]
         ELSE path \notin DOMAIN st'[n]

C37_WatcherDecisionTable ==
  [][/\ \A p \in Followers :
          (wpc[p] = "sleeping" /\ wpc'[p] = "idle") =>
            /\ Len(fchan'[p]) = Len(fchan[p]) + 1
            /\ FollowsTable(p, fchan'[p][Len(fchan'[p])])
     /\ (wpc[Leader] = "sleeping" /\ wpc'[Leader] = "idle") =>
          \A q \in conns :
            Alive(q) =>
              /\ Len(toF'[q]) = Len(toF[q]) + 1
              /\ FollowsTable(Leader, toF'[q][Len(toF'[q])])]_vars

\* The follower's watcher has handled a burst in which a file was created
\* and removed again: the leader never heard of the path, the only message
\* in the channel names it in files_to_delete, and the sync state holds a
\* tombstone for it.
C37_Witness ==
  \E p \in Followers, path \in Paths :
    /\ wpc[p] = "idle"
    /\ hs[p] = "done"
    /\ lastEdit[path].count = 2
    /\ path \notin DOMAIN disk[p]
    /\ path \notin DOMAIN st[Leader]
    /\ toL[p] = <<>>
    /\ fchan[p] = <<FileUpdatePush(EmptyMap, {path})>>
    /\ path \in DOMAIN st[p]
    /\ st[p][path].is_deleted


\* C38: when the leader's watcher handles a burst, the paths it gives a live
\* entry are the files_to_write, and the paths it gives a tombstone the
\* files_to_delete, of one FileUpdatePush that is written to every
\* connection of the connection manager and to no other peer; every
\* connected peer that is running receives exactly that frame.
LeaderDrains == wpc[Leader] = "sleeping" /\ wpc'[Leader] = "idle"

Stamped(path) ==
  /\ path \in Grouped(wfirst[Leader] \o events[Leader])
  /\ path \in DOMAIN st'[Leader]
  /\ st'[Leader][path].last_modified = now
  /\ path \in DOMAIN st[Leader] =>
       \/ st'[Leader][path] # st[Leader][path]
       \/ PathAction(disk[Leader], wfirst[Leader] \o events[Leader], path)
            # "ignore"

FannedOut ==
  LET written == {path \in Paths :
                    Stamped(path) /\ ~st'[Leader][path].is_deleted}
      removed == {path \in Paths :
                    Stamped(path) /\ st'[Leader][path].is_deleted}
      message == FileUpdatePush([path \in written |-> disk[Leader][path]],
                                removed)
  IN /\ \A path \in written :
          st'[Leader][path].hash = calculate_file_hash(disk[Leader][path])
     /\ lastCall'.op = "broadcast"
     /\ lastCall'.peer_ids = conns
     /\ \A q \in Followers :
          toF'[q] = IF q \in conns /\ Alive(q) THEN Append(toF[q], message)
                    ELSE toF[q]

ReaderTaskRuns(p) == lpc'[p] \notin {"none", "closed"}

FailedWritesEvict ==
  BroadcastReturns =>
    /\ conns' = conns \ lastCall'.failed_peers
    /\ \A p \in lastCall'.failed_peers :
         /\ ~Alive(p)
         /\ p \in Range(peers') => ReaderTaskRuns(p)

GoneEverywhere ==
  JoinsAndLeavesFinished =>
    \A p \in Followers :
      /\ ~Alive(p) => p \notin conns /\ p \notin Range(peers)
      /\ (Alive(p) /\ lpc[p] = "recv") => p \in conns /\ p \in Range(peers)

EditedByBoth(path) == path = "a" /\ lastEdit[path].count = 2

Agree(n, m, path) ==
  /\ path \in DOMAIN disk[n] <=> path \in DOMAIN disk[m]
  /\ path \in DOMAIN disk[n] => disk[n][path] = disk[m][path]
  /\ path \in DOMAIN st[n] <=> path \in DOMAIN st[m]
  /\ path \in DOMAIN st[n] =>
       /\ st[n][path].hash = st[m][path].hash
       /\ st[n][path].is_deleted = st[m][path].is_deleted

C35_ConcurrentEditsConverge ==
  Quiescent =>
    \A path \in Paths :
      EditedByBoth(path) =>
        \A n \in Nodes, m \in Nodes : Agree(n, m, path)

\* C36: quiescence: after one user edit, and as long as no other follows,
\* every node other than the one edited is sent the update at most once
\* (a node that holds the file has no FileUpdatePush on its way, a node
\* that does not has at most one), the node edited is sent none, no watcher
\* is within a debounce window it started for, or in which it has collected,
\* an event of a programmatic write, and as long as anything is in flight or
\* pending some task can take a step: the count of messages is bounded and
\* none is stuck.
OneEdit == edits = MaxEdits - 1

Pushes(frames) ==
  Cardinality({i \in DOMAIN frames : frames[i].type = "FileUpdatePush"})

Holds(n) == IF disk[n] = EmptyMap THEN 0 ELSE 1

OnTheWayTo(n) ==
  IF n = Leader
  THEN LET onTheWay[S \in SUBSET Followers] ==
             IF S = {} THEN 0
             ELSE LET p == CHOOSE q \in S : TRUE
                  IN Pushes(toL[p]) + Pushes(fchan[p]) + onTheWay[S \ {p}]
       IN onTheWay[Followers]
  ELSE Pushes(toF[n])

InFlight ==
  \/ \E p \in Followers : toF[p] # <<>> \/ toL[p] # <<>> \/ fchan[p] # <<>>
  \/ \E n \in Nodes : events[n] # <<>> \/ wpc[n] = "sleeping" \/ flag[n]

TaskStep ==
  \/ \E p \in Followers : Push(p) \/ Receive(p) \/ FRecvPeerListUpdate(p)
  \/ \E n \in Nodes : WDiscard(n)
  \/ Watch

====
